---- MODULE Spec2Model ----
(***************************************************************************)
(* A model of clemvg/stock_portfolio_tracker:                              *)
(*   - app/core/portfolio.py   Portfolio (every method body is `pass`)     *)
(*   - app/utils/helpers.py    safe_divide (body is `pass`)                *)
(*   - sandboxes/news/google_news_deprecated.py   GoogleNewsSandbox        *)
(*   - sandboxes/news/news_client.py   NewsAPIClient, get_news             *)
(*   - sandboxes/yfinance/yfinance_sandbox.py, sandboxes/llm/*.py          *)
(*     the handling of a failed external call                              *)
(*   - sandboxes/sqlite/sqlite_sandbox.py   SQLiteSandbox                  *)
(*                                                                         *)
(* Floats are modelled by integers (shares, prices) and by exact thousandths*)
(* (sentiment scores, which the code rounds to three decimals).  Strings   *)
(* that the code inspects character by character are sequences of          *)
(* one-character strings.                                                  *)
(***************************************************************************)
EXTENDS Integers, Sequences, FiniteSets, TLC

VARIABLES
    positions,   \* Portfolio: the positions the object holds (symbol -> position)
    quotes,      \* the price the quote source reports for each symbol
    hist,        \* Portfolio: the calls made on the object so far, with their outcome
    helper,      \* helpers.safe_divide: the arguments and the outcome of one call
    input,       \* the text handed to analyze_sentiment
    log,         \* the analyze_sentiment calls made so far, with their results
    web,         \* Google News: what the search page of each query holds
    requests,    \* GoogleNewsSandbox: GETs issued through self.session, per sandbox
    news,        \* the last get_stock_news call: its arguments and what it returned
    summary,     \* what the last create_news_summary call returned
    environ,     \* os.environ: the value of API_NEWS_KEY
    last,        \* the last call into news_client.py or a fetching sandbox, with its outcome
    clients,     \* news_client.py: the number of NewsAPIClient objects constructed so far
    sql          \* SQLiteSandbox: each database file and the sandbox that works on it

pvars == <<positions, quotes, hist>>
nvars == <<input, log, web, requests, news>>
avars == <<summary, environ, last, clients, sql>>
vars == <<positions, quotes, hist, helper, input, log, web, requests, news,
          summary, environ, last, clients, sql>>

----------------------------------------------------------------------------
(* Python values *)

\* The value None, which a function whose body is `pass` returns.
NoneValue == [kind |-> "None", val |-> 0]

----------------------------------------------------------------------------
(* Bounds *)

MaxCalls == 2        \* calls made on one Portfolio
MaxShares == 2       \* shares range over -1 .. MaxShares
MaxPrice == 2        \* prices range over -1 .. MaxPrice
MaxNumerator == 5    \* safe_divide numerators range over -3 .. MaxNumerator
MaxDenominator == 2  \* safe_divide denominators range over -2 .. MaxDenominator

Symbols == {"AAPL", "MSFT"}
Shares == -1 .. MaxShares
Prices == -1 .. MaxPrice
Periods == {"1y"}
Numerators == -3 .. MaxNumerator
Denominators == -2 .. MaxDenominator
Defaults == {-1, 0, 1}

MaxFrags == 3        \* fragments in an analysed text
MaxLog == 2          \* analyze_sentiment calls recorded
MaxPage == 2         \* article elements on one search page
MaxRequests == 3     \* GETs issued through one sandbox's session

Sandboxes == {1, 2}
NewsSymbols == {"AAPL"}
CompanyNames == {"", "Apple Inc."}

----------------------------------------------------------------------------
(* app/core/portfolio.py *)

\* Portfolio.__init__(name, user_id): `pass`.  The object gets no attribute,
\* so it holds no position.
Portfolio_init == [s \in {} |-> 0]

\* A call as it is recorded in hist: its arguments, what it returned, the
\* exception it raised ("none": it returned) and the symbols held before and
\* after it.
Call(op, symbol, shares, price, ret, after) ==
    [op |-> op, symbol |-> symbol, shares |-> shares, price |-> price,
     ret |-> ret, raised |-> "none",
     before |-> positions, after |-> after]

\* Portfolio.add_position(symbol, shares, price): `pass`.
add_position(symbol, shares, price) ==
    /\ Len(hist) < MaxCalls
    /\ hist' = Append(hist, Call("add_position", symbol, shares, price, NoneValue, positions))
    /\ UNCHANGED <<positions, quotes, helper, nvars, avars>>

\* Portfolio.remove_position(symbol): `pass`.
remove_position(symbol) ==
    /\ Len(hist) < MaxCalls
    /\ hist' = Append(hist, Call("remove_position", symbol, 0, 0, NoneValue, positions))
    /\ UNCHANGED <<positions, quotes, helper, nvars, avars>>

\* Portfolio.get_total_value(): `pass`.  No quote is fetched.
get_total_value ==
    /\ Len(hist) < MaxCalls
    /\ hist' = Append(hist, Call("get_total_value", "", 0, 0, NoneValue, positions))
    /\ UNCHANGED <<positions, quotes, helper, nvars, avars>>

\* Portfolio.get_performance(period="1y"): `pass`.
get_performance(period) ==
    /\ Len(hist) < MaxCalls
    /\ hist' = Append(hist, Call("get_performance", "", 0, 0, NoneValue, positions))
    /\ UNCHANGED <<positions, quotes, helper, nvars, avars>>

----------------------------------------------------------------------------
(* app/utils/helpers.py *)

\* safe_divide(numerator, denominator, default=0.0): `pass`.
safe_divide(numerator, denominator, default) == NoneValue

\* One call of safe_divide on the arguments drawn in HelpersInit.
CallSafeDivide ==
    /\ ~helper.called
    /\ helper' = [helper EXCEPT !.called = TRUE,
                     !.ret = safe_divide(helper.numerator, helper.denominator,
                                         helper.default)]
    /\ UNCHANGED <<pvars, nvars, avars>>

----------------------------------------------------------------------------
(* Python strings *)

UpperCase ==
    << "A", "B", "C", "D", "E", "F", "G", "H", "I", "J", "K", "L", "M",
       "N", "O", "P", "Q", "R", "S", "T", "U", "V", "W", "X", "Y", "Z" >>

LowerCase ==
    << "a", "b", "c", "d", "e", "f", "g", "h", "i", "j", "k", "l", "m",
       "n", "o", "p", "q", "r", "s", "t", "u", "v", "w", "x", "y", "z" >>

\* A lower() that leaves the text as it is.
str_lower_identity(text) == text

\* The lower-case form of each upper-case letter.
to_lower ==
    [c \in {UpperCase[j] : j \in 1 .. 26} |->
        LowerCase[CHOOSE j \in 1 .. 26 : UpperCase[j] = c]]

\* str.lower(): every cased character is replaced by its lower-case form.
str_lower(text) ==
    [i \in 1 .. Len(text) |->
        IF text[i] \in DOMAIN to_lower THEN to_lower[text[i]] ELSE text[i]]

\* `word in text` on two str: word occurs in text as a contiguous substring.
str_contains(word, text) ==
    \E i \in 1 .. (Len(text) - Len(word) + 1) :
        SubSeq(text, i, i + Len(word) - 1) = word

\* round(x, 3) for x = num / den >= 0, in thousandths.  Python rounds to the
\* nearest thousandth and an exact tie to the even one.
round3(num, den) ==
    LET q == (1000 * num) \div den
        r == (1000 * num) % den
    IN  IF 2 * r < den THEN q
        ELSE IF 2 * r > den THEN q + 1
        ELSE IF q % 2 = 0 THEN q ELSE q + 1

----------------------------------------------------------------------------
(* sandboxes/news/google_news_deprecated.py: GoogleNewsSandbox.analyze_sentiment *)

\* The positive keyword list, in list order.
positive_words ==
    << <<"u", "p">>,
       <<"r", "i", "s", "e">>,
       <<"g", "a", "i", "n">>,
       <<"p", "o", "s", "i", "t", "i", "v", "e">>,
       <<"g", "r", "o", "w", "t", "h">>,
       <<"p", "r", "o", "f", "i", "t">>,
       <<"e", "a", "r", "n", "i", "n", "g", "s">>,
       <<"b", "e", "a", "t">>,
       <<"s", "t", "r", "o", "n", "g">>,
       <<"b", "u", "l", "l", "i", "s", "h">>,
       <<"s", "u", "r", "g", "e">>,
       <<"r", "a", "l", "l", "y">>,
       <<"h", "i", "g", "h", "e", "r">>,
       <<"i", "n", "c", "r", "e", "a", "s", "e">>,
       <<"s", "u", "c", "c", "e", "s", "s">> >>

\* The negative keyword list, in list order.
negative_words ==
    << <<"d", "o", "w", "n">>,
       <<"f", "a", "l", "l">>,
       <<"d", "r", "o", "p">>,
       <<"n", "e", "g", "a", "t", "i", "v", "e">>,
       <<"l", "o", "s", "s">>,
       <<"d", "e", "c", "l", "i", "n", "e">>,
       <<"m", "i", "s", "s">>,
       <<"w", "e", "a", "k">>,
       <<"b", "e", "a", "r", "i", "s", "h">>,
       <<"c", "r", "a", "s", "h">>,
       <<"l", "o", "w", "e", "r">>,
       <<"d", "e", "c", "r", "e", "a", "s", "e">>,
       <<"f", "a", "i", "l", "u", "r", "e">>,
       <<"r", "i", "s", "k">>,
       <<"c", "o", "n", "c", "e", "r", "n">> >>

\* A count of every occurrence of every word.
keyword_count_occurrences(words, text_lower) ==
    Cardinality({p \in (1 .. Len(words)) \X (1 .. Len(text_lower)) :
                    /\ p[2] + Len(words[p[1]]) - 1 <= Len(text_lower)
                    /\ SubSeq(text_lower, p[2], p[2] + Len(words[p[1]]) - 1)
                           = words[p[1]]})

\* sum(1 for word in words if word in text_lower)
keyword_count(words, text_lower) ==
    Cardinality({k \in 1 .. Len(words) : str_contains(words[k], text_lower)})

\* The label with >= in place of >.
sentiment_of_ge(positive_count, negative_count) ==
    IF positive_count >= negative_count THEN "positive"
    ELSE IF negative_count >= positive_count THEN "negative"
    ELSE "neutral"

\* The if / elif / else that picks the label.
sentiment_of(positive_count, negative_count) ==
    IF positive_count > negative_count THEN "positive"
    ELSE IF negative_count > positive_count THEN "negative"
    ELSE "neutral"

\* The score with the losing count alone in the divisor.
score_of_over_losing(positive_count, negative_count) ==
    IF positive_count > negative_count
    THEN round3(positive_count, negative_count + 1)
    ELSE IF negative_count > positive_count
    THEN round3(negative_count, positive_count + 1)
    ELSE 500

\* The score without the + 1 in the divisor.
score_of_no_plus_one(positive_count, negative_count) ==
    IF positive_count > negative_count
    THEN round3(positive_count, positive_count + negative_count)
    ELSE IF negative_count > positive_count
    THEN round3(negative_count, positive_count + negative_count)
    ELSE 500

\* The quotient without the + 1 in the divisor.
score_fraction_no_plus_one(positive_count, negative_count) ==
    IF positive_count > negative_count
    THEN [num |-> positive_count, den |-> positive_count + negative_count]
    ELSE IF negative_count > positive_count
    THEN [num |-> negative_count, den |-> positive_count + negative_count]
    ELSE [num |-> 1, den |-> 2]

\* `score` of each branch before it is rounded, as the quotient num / den;
\* 0.5 is 1 / 2.
score_fraction(positive_count, negative_count) ==
    IF positive_count > negative_count
    THEN [num |-> positive_count, den |-> positive_count + negative_count + 1]
    ELSE IF negative_count > positive_count
    THEN [num |-> negative_count, den |-> positive_count + negative_count + 1]
    ELSE [num |-> 1, den |-> 2]

\* The score of each branch, as round(score, 3) reports it (thousandths).
score_of(positive_count, negative_count) ==
    LET score == score_fraction(positive_count, negative_count)
    IN  round3(score.num, score.den)

\* An analyze_sentiment that counts the requests of its sandbox as hits.
analyze_sentiment_stateful(self, text) ==
    LET text_lower == str_lower(text)
        positive_count == keyword_count(positive_words, text_lower) + self.session
        negative_count == keyword_count(negative_words, text_lower)
    IN  [sentiment |-> sentiment_of(positive_count, negative_count),
         score |-> score_of(positive_count, negative_count),
         positive_words |-> positive_count,
         negative_words |-> negative_count]

\* analyze_sentiment(self, text).  self is the sandbox the method is called
\* on; the method body does not read it.
analyze_sentiment(self, text) ==
    LET text_lower == str_lower(text)
        positive_count == keyword_count(positive_words, text_lower)
        negative_count == keyword_count(negative_words, text_lower)
    IN  [sentiment |-> sentiment_of(positive_count, negative_count),
         score |-> score_of(positive_count, negative_count),
         positive_words |-> positive_count,
         negative_words |-> negative_count]

\* The pieces the analysed texts are made of.
Fragments ==
    << <<"S", "t", "o", "c", "k">>,
       <<"U", "P">>,
       <<"s", "u", "p", "p", "l", "y">>,
       <<"D", "o", "w", "n", "g", "r", "a", "d", "e">>,
       <<"l", "o", "s", "s">>,
       <<"r", "i", "s", "e", " ", "g", "a", "i", "n", " ", "p", "r", "o", "f", "i", "t", " ", "b", "e", "a", "t", " ", "s", "t", "r", "o", "n", "g", " ", "s", "u", "r", "g", "e", " ", "r", "a", "l", "l", "y", " ", "h", "i", "g", "h", "e", "r", " ", "s", "u", "c", "c", "e", "s", "s">>,
       <<"f", "a", "l", "l", " ", "d", "r", "o", "p", " ", "l", "o", "s", "s", " ", "m", "i", "s", "s", " ", "w", "e", "a", "k", " ", "c", "r", "a", "s", "h">> >>

\* The texts analysed: up to MaxFrags fragments joined by single spaces.
RECURSIVE join(_)
join(ws) ==
    IF ws = << >> THEN << >>
    ELSE IF Len(ws) = 1 THEN Fragments[ws[1]]
    ELSE Fragments[ws[1]] \o <<" ">> \o join(Tail(ws))

Texts == {join(ws) : ws \in UNION {[1 .. n -> DOMAIN Fragments] : n \in 0 .. MaxFrags}}

MaxRepeat == 2       \* fragments in a text that is analysed alone and repeated

RepeatTexts ==
    {join(ws) : ws \in UNION {[1 .. n -> DOMAIN Fragments] : n \in 0 .. MaxRepeat}}

----------------------------------------------------------------------------
(* sandboxes/news/google_news_deprecated.py: searching *)

SearchLimit == 10    \* article_elements[:10]
UniqueLimit == 15    \* unique_articles[:15]
SleepSeconds == 1    \* time.sleep(1) after each search of get_stock_news

\* The headlines a search page can show.
Titles ==
    << <<"A", "p", "p", "l", "e", " ", "U", "P">>,
       <<"A", "p", "p", "l", "e", " ", "l", "o", "s", "s">>,
       <<"A", "p", "p", "l", "e">> >>

Min(a, b) == IF a < b THEN a ELSE b

\* seq[:n]
Prefix(seq, n) == SubSeq(seq, 1, Min(Len(seq), n))

\* The queries with the combined one first.
stock_queries_combined_first(symbol, company_name) ==
    IF company_name # ""
    THEN <<symbol \o " " \o company_name, symbol, company_name>>
    ELSE <<symbol>>

\* The queries of get_stock_news, in the order it builds them.
stock_queries(symbol, company_name) ==
    IF company_name # ""
    THEN <<symbol, company_name, symbol \o " " \o company_name>>
    ELSE <<symbol>>

Queries ==
    UNION {{stock_queries(s, c)[i] : i \in DOMAIN stock_queries(s, c)} :
              s \in NewsSymbols, c \in CompanyNames}

\* A search page: the GET and the parse succeed (ok) and the page holds these
\* article elements, each reduced to its headline; or they fail.
Pages ==
    {[ok |-> FALSE, elements |-> << >>]} \cup
    {[ok |-> TRUE, elements |-> e] :
        e \in UNION {[1 .. n -> {Titles[k] : k \in DOMAIN Titles}] : n \in 0 .. MaxPage}}

\* An article element whose parsing raises: it yields no headline.
BrokenElement == << "<raises>" >>

Parses(element) == element # BrokenElement

\* A search_news that skips the elements that raise first and takes the
\* first SearchLimit of the rest.
search_news_limit_after_parse(query) ==
    IF web[query].ok
    THEN LET parsed == Prefix(SelectSeq(web[query].elements, Parses), SearchLimit)
         IN  [i \in 1 .. Len(parsed) |-> [title |-> parsed[i], query |-> query]]
    ELSE << >>

\* search_news(query, days): of the first SearchLimit article elements of the
\* page, those whose parsing does not raise, each tagged with the query; []
\* when the request or the parse of the page raises. Of an article only the
\* title and the query are kept here: link, source and time are carried
\* along and never inspected.
search_news(query) ==
    IF web[query].ok
    THEN LET article_elements == Prefix(web[query].elements, SearchLimit)
             parsed == SelectSeq(article_elements, Parses)
         IN  [i \in 1 .. Len(parsed) |-> [title |-> parsed[i], query |-> query]]
    ELSE << >>

\* search_each that gives up at the first search that fails.
RECURSIVE search_each_abort(_)
search_each_abort(queries) ==
    IF queries = << >> THEN << >>
    ELSE IF ~web[Head(queries)].ok THEN << >>
    ELSE search_news(Head(queries)) \o search_each_abort(Tail(queries))

\* The loop `for query in queries: all_articles.extend(search_news(query))`.
RECURSIVE search_each(_)
search_each(queries) ==
    IF queries = << >> THEN << >>
    ELSE search_news(Head(queries)) \o search_each(Tail(queries))

\* What the loop over the queries does, in program order: search_news(query)
\* issues its one GET and returns (with articles or, after an exception, with
\* []), then time.sleep(1) runs; only then does the next iteration start.
Event(ev, query, seconds) == [ev |-> ev, query |-> query, seconds |-> seconds]

RECURSIVE search_events(_)
search_events(queries) ==
    IF queries = << >> THEN << >>
    ELSE << Event("GET", Head(queries), 0),
            Event("return", Head(queries), 0),
            Event("sleep", Head(queries), SleepSeconds) >>
         \o search_events(Tail(queries))

\* The loop without seen_titles.add(article["title"]).
RECURSIVE remove_duplicates_no_add(_, _, _)
remove_duplicates_no_add(all_articles, seen_titles, unique_articles) ==
    IF all_articles = << >> THEN unique_articles
    ELSE LET article == Head(all_articles)
         IN  IF article.title \notin seen_titles
             THEN remove_duplicates_no_add(Tail(all_articles), seen_titles,
                                           Append(unique_articles, article))
             ELSE remove_duplicates_no_add(Tail(all_articles), seen_titles,
                                           unique_articles)

\* The loop keeping the last article of a title in place of the first.
RECURSIVE remove_duplicates_keep_last(_, _, _)
remove_duplicates_keep_last(all_articles, seen_titles, unique_articles) ==
    IF all_articles = << >> THEN unique_articles
    ELSE LET article == Head(all_articles)
             others == SelectSeq(unique_articles,
                                 LAMBDA a : a.title # article.title)
         IN  remove_duplicates_keep_last(Tail(all_articles),
                                         seen_titles \cup {article.title},
                                         Append(others, article))

\* The loop that drops an article whose title was seen before.
RECURSIVE remove_duplicates(_, _, _)
remove_duplicates(all_articles, seen_titles, unique_articles) ==
    IF all_articles = << >> THEN unique_articles
    ELSE LET article == Head(all_articles)
         IN  IF article.title \notin seen_titles
             THEN remove_duplicates(Tail(all_articles),
                                    seen_titles \cup {article.title},
                                    Append(unique_articles, article))
             ELSE remove_duplicates(Tail(all_articles), seen_titles,
                                    unique_articles)

\* The body of get_stock_news(self, symbol, company_name, days): one search
\* per query, then the duplicates are dropped and the first UniqueLimit
\* articles returned.
stock_news_call(symbol, company_name) ==
    LET queries == stock_queries(symbol, company_name)
        all_articles == search_each(queries)
        unique_articles == remove_duplicates(all_articles, {}, << >>)
    IN  [called |-> TRUE, symbol |-> symbol,
         company_name |-> company_name,
         events |-> search_events(queries),
         all_articles |-> all_articles,
         articles |-> Prefix(unique_articles, UniqueLimit)]

run_get_stock_news(self, symbol, company_name) ==
    LET queries == stock_queries(symbol, company_name)
    IN  /\ requests[self] + Len(queries) <= MaxRequests
        /\ requests' = [requests EXCEPT ![self] = @ + Len(queries)]
        /\ news' = stock_news_call(symbol, company_name)

\* A call of get_stock_news from outside the class.
get_stock_news(self, symbol, company_name) ==
    /\ run_get_stock_news(self, symbol, company_name)
    /\ UNCHANGED <<pvars, helper, input, log, web, avars>>

\* One call of analyze_sentiment on sandbox self with the text under analysis.
AnalyzeText(self) ==
    /\ Len(log) < MaxLog
    /\ log' = Append(log, [self |-> self, session |-> requests[self],
                           text |-> input,
                           result |-> analyze_sentiment([session |-> requests[self]], input)])
    /\ UNCHANGED <<pvars, helper, input, web, requests, news, avars>>

\* One call of analyze_sentiment on sandbox self with the text under analysis
\* written twice, a space between.
AnalyzeRepeated(self) ==
    /\ Len(log) < MaxLog
    /\ LET repeated == input \o <<" ">> \o input
       IN  log' = Append(log, [self |-> self, session |-> requests[self],
                               text |-> repeated,
                               result |-> analyze_sentiment([session |-> requests[self]],
                                                            repeated)])
    /\ UNCHANGED <<pvars, helper, input, web, requests, news, avars>>

----------------------------------------------------------------------------
(* sandboxes/news/google_news_deprecated.py: pages that reach the limits *)

Digits == <<"0", "1", "2", "3", "4", "5", "6", "7", "8", "9">>

\* The headline "#k", for k below 100.
NumberedTitle(k) == <<"#", Digits[(k \div 10) + 1], Digits[(k % 10) + 1]>>

\* A page with two article elements more than search_news reads.
LongPage == [i \in 1 .. SearchLimit + 2 |-> NumberedTitle(i)]

\* A page with one element more than search_news reads: a headline of
\* LongPage, an element whose parsing raises, then new headlines.
BrokenPage ==
    <<NumberedTitle(5), BrokenElement>>
        \o [i \in 1 .. SearchLimit - 1 |-> NumberedTitle(SearchLimit + 2 + i)]

\* A page that shows one headline twice.
RepeatingPage == <<NumberedTitle(1), NumberedTitle(1), NumberedTitle(30)>>

LimitPages ==
    {[ok |-> FALSE, elements |-> << >>]} \cup
    {[ok |-> TRUE, elements |-> e] :
        e \in {<< >>, LongPage, BrokenPage, RepeatingPage}}

----------------------------------------------------------------------------
(* sandboxes/news/google_news_deprecated.py: market news *)

MarketQueryLimit == 3    \* market_queries[:3]
MarketLimit == 10        \* all_market_news[:10]

market_queries ==
    <<"stock market", "Wall Street", "S&P 500", "NASDAQ", "Dow Jones",
      "market news", "trading news">>

MarketQueries == {market_queries[i] : i \in DOMAIN market_queries}

\* What the page of a market query can be: failing, long, or repeating a
\* headline.
MarketPages ==
    {[ok |-> FALSE, elements |-> << >>],
     [ok |-> TRUE, elements |-> LongPage],
     [ok |-> TRUE, elements |-> RepeatingPage]}

\* A return that drops repeated titles before it cuts.
first_market_news_unique(all_market_news) ==
    Prefix(remove_duplicates(all_market_news, {}, << >>), MarketLimit)

\* return all_market_news[:10]
first_market_news(all_market_news) == Prefix(all_market_news, MarketLimit)

\* get_market_news(self, days): one search for each of the first
\* MarketQueryLimit market queries, a sleep after each, then the cut.
get_market_news(self) ==
    LET queries == Prefix(market_queries, MarketQueryLimit)
        all_market_news == search_each(queries)
    IN  /\ requests[self] + Len(queries) <= MaxRequests
        /\ requests' = [requests EXCEPT ![self] = @ + Len(queries)]
        /\ last' = [op |-> "get_market_news",
                    events |-> search_events(queries),
                    all_market_news |-> all_market_news,
                    ret |-> first_market_news(all_market_news)]
        /\ UNCHANGED <<pvars, helper, input, log, web, news, summary, environ,
                       clients, sql>>

----------------------------------------------------------------------------
(* sandboxes/news/google_news_deprecated.py: summaries *)

MaxHeadlines == 1    \* article elements on one search page when summaries are made
HeadLimit == 5       \* news_df.head(5)

\* The headlines a search page can show when summaries are made: a positive
\* one (score 0.5), a negative one (score 0.667) and a neutral one.
Headlines ==
    << <<"A", "p", "p", "l", "e", " ", "U", "P">>,
       <<"A", "p", "p", "l", "e", " ", "l", "o", "s", "s", " ", "r", "i", "s", "k">>,
       <<"A", "p", "p", "l", "e">> >>

HeadlinePages ==
    {[ok |-> FALSE, elements |-> << >>]} \cup
    {[ok |-> TRUE, elements |-> e] :
        e \in UNION {[1 .. n -> {Headlines[k] : k \in DOMAIN Headlines}] :
                        n \in 0 .. MaxHeadlines}}

\* analyze_news_sentiment(self, articles): one row per article, made from the
\* analysis of its title; the empty frame for no article.
RECURSIVE analyze_news_sentiment(_, _)
analyze_news_sentiment(self, articles) ==
    IF articles = << >> THEN << >>
    ELSE LET article == Head(articles)
             sentiment == analyze_sentiment(self, article.title)
         IN  << [title |-> article.title,
                 sentiment |-> sentiment.sentiment,
                 sentiment_score |-> sentiment.score,
                 positive_words |-> sentiment.positive_words,
                 negative_words |-> sentiment.negative_words,
                 query |-> article.query] >>
             \o analyze_news_sentiment(self, Tail(articles))

\* A value_counts() that leaves the neutral rows out.
value_counts_without_neutral(news_df) ==
    [label \in {news_df[i].sentiment : i \in DOMAIN news_df} \ {"neutral"} |->
        Cardinality({i \in DOMAIN news_df : news_df[i].sentiment = label})]

\* news_df["sentiment"].value_counts(): the number of rows of each label that
\* occurs.
value_counts(news_df) ==
    [label \in {news_df[i].sentiment : i \in DOMAIN news_df} |->
        Cardinality({i \in DOMAIN news_df : news_df[i].sentiment = label})]

\* The sum of news_df["sentiment_score"], in thousandths.
RECURSIVE sum_scores(_)
sum_scores(news_df) ==
    IF news_df = << >> THEN 0
    ELSE Head(news_df).sentiment_score + sum_scores(Tail(news_df))

\* round(news_df["sentiment_score"].mean(), 3), in thousandths: the nearest
\* thousandth to total / count.  When total / count lies exactly between two
\* thousandths the binary floating-point value of the mean decides, so either
\* neighbour can be the result.
rounded_means(total, count) ==
    LET q == total \div count
        r == total % count
    IN  IF 2 * r < count THEN {q}
        ELSE IF 2 * r > count THEN {q + 1}
        ELSE {q, q + 1}

\* An index[0] that can be any label that occurs.
top_labels_any(sentiment_counts) == DOMAIN sentiment_counts

\* sentiment_counts.index[0]: value_counts() sorts by descending count, so
\* this is a label with the highest count; the order among labels with equal
\* counts is left to the sort.
top_labels(sentiment_counts) ==
    {label \in DOMAIN sentiment_counts :
        \A other \in DOMAIN sentiment_counts :
            sentiment_counts[other] <= sentiment_counts[label]}

\* The dictionaries create_news_summary can return once get_stock_news has
\* returned stock_news: the error dictionary, or the summary of the analysed
\* articles.
news_summaries(self, symbol, company_name, stock_news) ==
    LET news_df == analyze_news_sentiment(self, stock_news)
        sentiment_counts == value_counts(news_df)
    IN  IF stock_news = << >>
        THEN {[error |-> "No news found for " \o symbol]}
        ELSE {[symbol |-> symbol,
               company_name |-> company_name,
               total_articles |-> Len(news_df),
               sentiment_distribution |-> sentiment_counts,
               average_sentiment_score |-> avg_sentiment_score,
               overall_sentiment |-> overall_sentiment,
               recent_headlines |->
                   [i \in DOMAIN Prefix(news_df, HeadLimit) |->
                       [title |-> news_df[i].title,
                        sentiment |-> news_df[i].sentiment]],
               all_articles |-> news_df] :
                 avg_sentiment_score \in
                     rounded_means(sum_scores(news_df), Len(news_df)),
                 overall_sentiment \in top_labels(sentiment_counts)}

\* create_news_summary(self, symbol, company_name): get_stock_news, then
\* either the error dictionary or the summary of the analysed articles.
create_news_summary(self, symbol, company_name) ==
    /\ run_get_stock_news(self, symbol, company_name)
    /\ summary' \in news_summaries([session |-> requests'[self]], symbol,
                                   company_name, news'.articles)
    /\ UNCHANGED <<pvars, helper, input, log, web, environ, last, clients, sql>>

----------------------------------------------------------------------------
(* sandboxes/news/google_news_deprecated.py: compare_stock_news *)

MaxSymbols == 2      \* symbols handed to one compare_stock_news call
CompareSleep == 2    \* time.sleep(2)

\* The lists compare_stock_news is called with; company_names is left out
\* (none) or a list with one empty name.
SymbolLists == UNION {[1 .. n -> Symbols] : n \in 0 .. MaxSymbols}
CompanyNameLists ==
    {[none |-> TRUE, list |-> << >>], [none |-> FALSE, list |-> << "" >>]}

\* What the page of a symbol can be when stocks are compared: failing, or a
\* positive and two neutral headlines.
ComparePages ==
    {[ok |-> FALSE, elements |-> << >>],
     [ok |-> TRUE, elements |-> << Headlines[1], NumberedTitle(1), Headlines[3] >>]}

\* dict.get(label, 0)
dict_get(d, label) == IF label \in DOMAIN d THEN d[label] ELSE 0

\* The summaries the create_news_summary calls of the loop can return, one
\* for each pair of zip(symbols, company_names) from position i on; session is
\* the number of GETs of the sandbox before the call of position i.
RECURSIVE compare_summaries(_, _, _, _)
compare_summaries(session, symbols, company_names, i) ==
    IF i > Min(Len(symbols), Len(company_names)) THEN {<< >>}
    ELSE LET call == stock_news_call(symbols[i], company_names[i])
             after == session + Len(stock_queries(symbols[i], company_names[i]))
         IN  {<<summary_i>> \o rest :
                 summary_i \in news_summaries([session |-> after], symbols[i],
                                              company_names[i], call.articles),
                 rest \in compare_summaries(after, symbols, company_names, i + 1)}

\* comparison_data: a row for each summary without an "error" key. Of a row
\* the symbol, the company and the article counts are kept.
RECURSIVE comparison_data(_, _, _, _)
comparison_data(symbols, company_names, summaries, i) ==
    IF i > Len(summaries) THEN << >>
    ELSE (IF "error" \notin DOMAIN summaries[i]
          THEN << [Symbol |-> symbols[i],
                   Company |-> company_names[i],
                   Total_Articles |-> summaries[i].total_articles,
                   Overall_Sentiment |-> summaries[i].overall_sentiment,
                   Avg_Sentiment_Score |-> summaries[i].average_sentiment_score,
                   Positive_Articles |->
                       dict_get(summaries[i].sentiment_distribution, "positive"),
                   Negative_Articles |->
                       dict_get(summaries[i].sentiment_distribution, "negative"),
                   Neutral_Articles |->
                       dict_get(summaries[i].sentiment_distribution, "neutral")] >>
          ELSE << >>)
         \o comparison_data(symbols, company_names, summaries, i + 1)

\* The GETs the loop issues from position i on.
RECURSIVE compare_requests(_, _, _)
compare_requests(symbols, company_names, i) ==
    IF i > Min(Len(symbols), Len(company_names)) THEN 0
    ELSE Len(stock_queries(symbols[i], company_names[i]))
         + compare_requests(symbols, company_names, i + 1)

\* compare_stock_news(self, symbols, company_names): create_news_summary for
\* each pair, a row for each summary that is not an error, a sleep of 2
\* seconds after each pair.
compare_stock_news(self, symbols, names) ==
    LET company_names == IF names.none THEN [i \in DOMAIN symbols |-> ""]
                         ELSE names.list
        n == Min(Len(symbols), Len(company_names))
        gets == compare_requests(symbols, company_names, 1)
    IN  /\ requests[self] + gets <= MaxRequests
        /\ requests' = [requests EXCEPT ![self] = @ + gets]
        /\ \E summaries \in compare_summaries(requests[self], symbols, company_names, 1) :
              /\ last' = [op |-> "compare_stock_news",
                          symbols |-> symbols,
                          company_names |-> company_names,
                          summaries |-> summaries,
                          slept |-> n * CompareSleep,
                          ret |-> comparison_data(symbols, company_names, summaries, 1)]
              /\ IF n = 0
                 THEN UNCHANGED <<news, summary>>
                 ELSE /\ news' = stock_news_call(symbols[n], company_names[n])
                      /\ summary' = summaries[n]
        /\ UNCHANGED <<pvars, helper, input, log, web, environ, clients, sql>>

----------------------------------------------------------------------------
(* sandboxes/news/news_client.py *)

MaxResults == 1      \* articles in one NewsAPI response
MaxClients == 2      \* NewsAPIClient objects constructed

MissingKey == "API key not found. Set API_NEWS_KEY environment variable or pass api_key parameter."
BadEndpoint == "endpoint must be either 'top_headlines' or 'everything'"

\* Python's None where a str is expected (an argument left out, a variable
\* that is not set).
PyNone == "None"

EnvValues == {PyNone, "", "env-key"}
ApiKeys == {PyNone, "", "arg-key"}
Keywords == {PyNone, "apple"}
SourceIds == {PyNone, "bbc-news"}
Categories == {PyNone, "business"}
Countries == {PyNone, "us"}
Endpoints == {"top_headlines", "everything", "sources", ""}

\* What the NewsAPI service does with a request that reaches it: it answers
\* with articles, or the request fails (network, key, rate limit).
Replies ==
    {[ok |-> FALSE, articles |-> << >>]} \cup
    {[ok |-> TRUE, articles |-> a] :
        a \in UNION {[1 .. n -> {Headlines[k] : k \in DOMAIN Headlines}] :
                        n \in 0 .. MaxResults}}

\* An __init__ that tests `if not api_key` in place of `if api_key is None`.
NewsAPIClient_init_falsy(api_key) ==
    IF api_key \in {PyNone, ""}
    THEN IF environ.API_NEWS_KEY \in {PyNone, ""}
         THEN [raised |-> "ValueError", message |-> MissingKey, client |-> PyNone,
               getenv |-> TRUE]
         ELSE [raised |-> "none", message |-> "", client |-> environ.API_NEWS_KEY,
               getenv |-> TRUE]
    ELSE [raised |-> "none", message |-> "", client |-> api_key, getenv |-> FALSE]

\* NewsAPIClient.__init__(api_key=None): the exception raised, the key the
\* provider client self.client was created with (PyNone: not created) and
\* whether os.getenv was called.
NewsAPIClient_init(api_key) ==
    IF api_key = PyNone
    THEN IF environ.API_NEWS_KEY \in {PyNone, ""}
         THEN [raised |-> "ValueError", message |-> MissingKey, client |-> PyNone,
               getenv |-> TRUE]
         ELSE [raised |-> "none", message |-> "", client |-> environ.API_NEWS_KEY,
               getenv |-> TRUE]
    ELSE [raised |-> "none", message |-> "", client |-> api_key, getenv |-> FALSE]

\* self.client.get_top_headlines(...) of the newsapi package, as the note in
\* the docstring of NewsAPIClient.get_top_headlines records it: sources
\* cannot be mixed with country or category; such a call is refused before
\* any request is made.
client_get_top_headlines(sources, category, country, reply) ==
    IF sources # PyNone /\ (country # PyNone \/ category # PyNone)
    THEN [raised |-> "ValueError", response |-> << >>]
    ELSE IF reply.ok
    THEN [raised |-> "none", response |-> reply.articles]
    ELSE [raised |-> "NewsAPIException", response |-> << >>]

\* self.client.get_everything(...) and self.client.get_sources(...).
client_get(reply) ==
    IF reply.ok
    THEN [raised |-> "none", response |-> reply.articles]
    ELSE [raised |-> "NewsAPIException", response |-> << >>]

\* _parse_response(response): one NewsArticle per article of the response.
\* Of an article only the title is kept; totalResults is the number of
\* articles the response holds.
parse_response(response) ==
    [status |-> "ok", total_results |-> Len(response),
     articles |-> [i \in DOMAIN response |-> [title |-> response[i]]]]

NoResponse == [status |-> "", total_results |-> 0, articles |-> << >>]

\* The outcome of a fetch method: try: return ret; except Exception as e:
\* raise Exception(prefix + str(e)).
Reraise(result, prefix, ret) ==
    IF result.raised = "none"
    THEN [raised |-> "none", message |-> "", cause |-> "none", returned |-> TRUE,
          ret |-> ret]
    ELSE [raised |-> "Exception", message |-> prefix, cause |-> result.raised,
          returned |-> FALSE, ret |-> NoResponse]

\* A get_top_headlines that swallows the exception and returns an empty
\* response.
get_top_headlines_swallow(q, sources, category, country, reply) ==
    LET result == client_get_top_headlines(sources, category, country, reply)
    IN  IF result.raised = "none"
        THEN Reraise(result, "Error fetching top headlines: ",
                     parse_response(result.response))
        ELSE [raised |-> "none", message |-> "", cause |-> result.raised,
              returned |-> TRUE, ret |-> NoResponse]

\* NewsAPIClient.get_top_headlines(q, sources, category, language, country,
\* page_size, page).
get_top_headlines(q, sources, category, country, reply) ==
    LET result == client_get_top_headlines(sources, category, country, reply)
    IN  Reraise(result, "Error fetching top headlines: ",
                parse_response(result.response))

\* NewsAPIClient.get_everything(q, sources, ...).
get_everything(q, sources, reply) ==
    LET result == client_get(reply)
    IN  Reraise(result, "Error fetching articles: ",
                parse_response(result.response))

\* NewsAPIClient.get_sources(category, language, country): the raw answer is
\* returned unparsed.
get_sources(category, country, reply) ==
    LET result == client_get(reply)
    IN  Reraise(result, "Error fetching sources: ",
                [status |-> "ok", sources |-> result.response])

\* A get_news that dispatches on the endpoint in the other order.
get_news_swapped(endpoint, q, sources, reply) ==
    LET client == NewsAPIClient_init(PyNone)
    IN  IF client.raised # "none"
        THEN [constructed |-> FALSE, called |-> "none", raised |-> client.raised,
              message |-> client.message, returned |-> FALSE, ret |-> NoResponse]
        ELSE IF endpoint = "everything"
        THEN LET r == get_top_headlines(q, sources, PyNone, PyNone, reply)
             IN  [constructed |-> TRUE, called |-> "get_top_headlines",
                  raised |-> r.raised, message |-> r.message,
                  returned |-> r.returned, ret |-> r.ret]
        ELSE IF endpoint = "top_headlines"
        THEN LET r == get_everything(q, sources, reply)
             IN  [constructed |-> TRUE, called |-> "get_everything",
                  raised |-> r.raised, message |-> r.message,
                  returned |-> r.returned, ret |-> r.ret]
        ELSE [constructed |-> TRUE, called |-> "none", raised |-> "ValueError",
              message |-> BadEndpoint, returned |-> FALSE, ret |-> NoResponse]

\* A get_news that tests the endpoint before it constructs the client.
get_news_endpoint_first(endpoint, q, sources, reply) ==
    IF endpoint \notin {"top_headlines", "everything"}
    THEN [constructed |-> FALSE, called |-> "none", raised |-> "ValueError",
          message |-> BadEndpoint, returned |-> FALSE, ret |-> NoResponse]
    ELSE LET client == NewsAPIClient_init(PyNone)
         IN  IF client.raised # "none"
             THEN [constructed |-> FALSE, called |-> "none",
                   raised |-> client.raised, message |-> client.message,
                   returned |-> FALSE, ret |-> NoResponse]
             ELSE LET r == IF endpoint = "top_headlines"
                           THEN get_top_headlines(q, sources, PyNone, PyNone, reply)
                           ELSE get_everything(q, sources, reply)
                  IN  [constructed |-> TRUE,
                       called |-> IF endpoint = "top_headlines"
                                  THEN "get_top_headlines" ELSE "get_everything",
                       raised |-> r.raised, message |-> r.message,
                       returned |-> r.returned, ret |-> r.ret]

\* get_news(endpoint="top_headlines", **kwargs), the keyword arguments being
\* q and sources: whether the client was constructed, the fetch method that
\* was called, the exception raised and the response returned.
get_news(endpoint, q, sources, reply) ==
    LET client == NewsAPIClient_init(PyNone)
    IN  IF client.raised # "none"
        THEN [constructed |-> FALSE, called |-> "none", raised |-> client.raised,
              message |-> client.message, returned |-> FALSE, ret |-> NoResponse]
        ELSE IF endpoint = "top_headlines"
        THEN LET r == get_top_headlines(q, sources, PyNone, PyNone, reply)
             IN  [constructed |-> TRUE, called |-> "get_top_headlines",
                  raised |-> r.raised, message |-> r.message,
                  returned |-> r.returned, ret |-> r.ret]
        ELSE IF endpoint = "everything"
        THEN LET r == get_everything(q, sources, reply)
             IN  [constructed |-> TRUE, called |-> "get_everything",
                  raised |-> r.raised, message |-> r.message,
                  returned |-> r.returned, ret |-> r.ret]
        ELSE [constructed |-> TRUE, called |-> "none", raised |-> "ValueError",
              message |-> BadEndpoint, returned |-> FALSE, ret |-> NoResponse]

ApiFrame == UNCHANGED <<pvars, helper, nvars, summary, environ, sql>>

\* client = NewsAPIClient(api_key)
CallNewsAPIClient(api_key) ==
    LET out == NewsAPIClient_init(api_key)
    IN  /\ out.raised = "none" => clients < MaxClients
        /\ last' = [op |-> "NewsAPIClient", api_key |-> api_key, out |-> out]
        /\ clients' = IF out.raised = "none" THEN clients + 1 ELSE clients
        /\ ApiFrame

\* client.get_top_headlines(q=, sources=, category=, country=)
CallGetTopHeadlines(q, sources, category, country, reply) ==
    /\ last' = [op |-> "get_top_headlines", q |-> q, sources |-> sources,
                category |-> category, country |-> country,
                failed |-> ~reply.ok,
                out |-> get_top_headlines(q, sources, category, country, reply)]
    /\ ApiFrame
    /\ UNCHANGED clients

\* client.get_everything(q=, sources=)
CallGetEverything(q, sources, reply) ==
    /\ last' = [op |-> "get_everything", q |-> q, sources |-> sources,
                failed |-> ~reply.ok,
                out |-> get_everything(q, sources, reply)]
    /\ ApiFrame
    /\ UNCHANGED clients

\* client.get_sources(category=, country=)
CallGetSources(category, country, reply) ==
    /\ last' = [op |-> "get_sources", category |-> category, country |-> country,
                failed |-> ~reply.ok,
                out |-> get_sources(category, country, reply)]
    /\ ApiFrame
    /\ UNCHANGED clients

\* get_news(endpoint, q=, sources=); client is the NewsAPIClient object the
\* call worked with, numbered in the order of construction (0: none).
CallGetNews(endpoint, q, sources, reply) ==
    LET out == get_news(endpoint, q, sources, reply)
    IN  /\ out.constructed => clients < MaxClients
        /\ last' = [op |-> "get_news", endpoint |-> endpoint, q |-> q,
                    sources |-> sources, failed |-> ~reply.ok,
                    client |-> IF out.constructed THEN clients + 1 ELSE 0,
                    out |-> out]
        /\ clients' = IF out.constructed THEN clients + 1 ELSE clients
        /\ ApiFrame

----------------------------------------------------------------------------
(* sandboxes/yfinance/yfinance_sandbox.py, sandboxes/llm/*.py: the calls out *)

InfoKeys == 12       \* entries of the stock_info dict
MetricKeys == 8      \* entries of the metrics dict

\* What a sandbox operation did: the exception that left it, the kind of
\* message it printed, and the value it returned (its kind and its size).
Outcome(raised, printed, kind, size) ==
    [raised |-> raised, printed |-> printed, ret |-> [kind |-> kind, size |-> size]]

\* What the Hugging Face call does: it answers, os.environ has no
\* HUGGINGFACE_TOKEN, or the request raises.
HFOutcomes == {"ok", "KeyError", "Exception"}

\* A get_stock_info without the try/except.
get_stock_info_propagates(raises) ==
    IF raises
    THEN Outcome("Exception", "none", "none", 0)
    ELSE Outcome("none", "info", "dict", InfoKeys)

\* YFinanceSandbox.get_stock_info(symbol); raises: yf.Ticker(symbol).info
\* raised.
get_stock_info(raises) ==
    IF raises
    THEN Outcome("none", "error", "dict", 0)
    ELSE Outcome("none", "info", "dict", InfoKeys)

\* YFinanceSandbox.get_historical_data(symbol, period); raises: the history
\* request raised; days: the rows of the history it answered with.
get_historical_data(raises, days) ==
    IF raises THEN Outcome("none", "error", "frame", 0)
    ELSE IF days = 0 THEN Outcome("none", "warning", "frame", 0)
    ELSE Outcome("none", "info", "frame", days)

\* The betas a computation over the market data can give.
Betas == {0, 1}

\* YFinanceSandbox.calculate_metrics(symbol, data); empty: data.empty, and no
\* request is made; raises: the request for the market data raised; beta: the
\* beta the market data give. The bare `except:` sets beta = 0 and prints
\* nothing.
calculate_metrics(empty, raises, beta) ==
    IF empty
    THEN [raised |-> "none", printed |-> "none",
          ret |-> [kind |-> "dict", size |-> 0], beta |-> 0]
    ELSE [raised |-> "none", printed |-> "none",
          ret |-> [kind |-> "dict", size |-> MetricKeys],
          beta |-> IF raises THEN 0 ELSE beta]

\* get_llama_completion(prompt, system_message)
get_llama_completion(outcome) ==
    IF outcome = "ok" THEN Outcome("none", "none", "message", 1)
    ELSE Outcome("none", "error", "None", 0)

\* get_financial_sentiment(text)
get_financial_sentiment(outcome) ==
    IF outcome = "ok" THEN Outcome("none", "none", "labels", 1)
    ELSE Outcome("none", "error", "None", 0)

\* get_bart_summary(text)
get_bart_summary(outcome) ==
    IF outcome = "ok" THEN Outcome("none", "none", "summary", 1)
    ELSE Outcome("none", "error", "None", 0)

\* sandbox.search_news(query) called on its own: one GET of the session.
CallSearchNews(self, query) ==
    /\ requests[self] < MaxRequests
    /\ requests' = [requests EXCEPT ![self] = @ + 1]
    /\ last' = [op |-> "search_news", failed |-> ~web[query].ok,
                out |-> Outcome("none",
                                IF web[query].ok THEN "info" ELSE "error",
                                "list", Len(search_news(query)))]
    /\ UNCHANGED <<pvars, helper, input, log, web, news, summary, environ,
                   clients, sql>>

CallGetStockInfo(raises) ==
    /\ last' = [op |-> "get_stock_info", failed |-> raises,
                out |-> get_stock_info(raises)]
    /\ ApiFrame
    /\ UNCHANGED clients

CallGetHistoricalData(raises, days) ==
    /\ last' = [op |-> "get_historical_data", failed |-> raises,
                out |-> get_historical_data(raises, days)]
    /\ ApiFrame
    /\ UNCHANGED clients

CallCalculateMetrics(empty, raises, beta) ==
    /\ last' = [op |-> "calculate_metrics", failed |-> ~empty /\ raises,
                out |-> calculate_metrics(empty, raises, beta)]
    /\ ApiFrame
    /\ UNCHANGED clients

CallHuggingFace(outcome) ==
    /\ \E call \in {[op |-> "get_llama_completion", out |-> get_llama_completion(outcome)],
                    [op |-> "get_financial_sentiment", out |-> get_financial_sentiment(outcome)],
                    [op |-> "get_bart_summary", out |-> get_bart_summary(outcome)]} :
           last' = [op |-> call.op, failed |-> outcome # "ok", out |-> call.out]
    /\ ApiFrame
    /\ UNCHANGED clients

----------------------------------------------------------------------------
(* sandboxes/sqlite/sqlite_sandbox.py: SQLiteSandbox                        *)
(* sql[db_path] is the database file of that path and the sandbox object    *)
(* that works on it.  REAL columns hold whole dollars in the sample data    *)
(* and are integers here; a DATE column holds an ISO date string, compared  *)
(* as text by MAX(date), and is the integer yyyymmdd, which orders alike.   *)

MaxInserts == 2      \* completed insert_sample_data calls on one database file

DbPaths == {"portfolio_test.db", "other_test.db"}

stocks_data ==
    << [symbol |-> "AAPL", company_name |-> "Apple Inc.", sector |-> "Technology"],
       [symbol |-> "GOOGL", company_name |-> "Alphabet Inc.", sector |-> "Technology"],
       [symbol |-> "MSFT", company_name |-> "Microsoft Corporation",
        sector |-> "Technology"],
       [symbol |-> "TSLA", company_name |-> "Tesla Inc.", sector |-> "Automotive"],
       [symbol |-> "AMZN", company_name |-> "Amazon.com Inc.",
        sector |-> "Consumer Discretionary"] >>

portfolio_data ==
    << [stock_id |-> 1, shares |-> 10, purchase_price |-> 150, purchase_date |-> 20240115],
       [stock_id |-> 2, shares |-> 5, purchase_price |-> 2800, purchase_date |-> 20240120],
       [stock_id |-> 3, shares |-> 8, purchase_price |-> 380, purchase_date |-> 20240201],
       [stock_id |-> 4, shares |-> 20, purchase_price |-> 200, purchase_date |-> 20240210],
       [stock_id |-> 5, shares |-> 15, purchase_price |-> 3300, purchase_date |-> 20240215] >>

prices_data ==
    << [stock_id |-> 1, price |-> 155, date |-> 20240301],
       [stock_id |-> 2, price |-> 2850, date |-> 20240301],
       [stock_id |-> 3, price |-> 395, date |-> 20240301],
       [stock_id |-> 4, price |-> 210, date |-> 20240301],
       [stock_id |-> 5, price |-> 3400, date |-> 20240301] >>

\* A database file that sqlite3.connect has just created: no table yet.
EmptyFile == [tables |-> FALSE, stocks |-> << >>, portfolio |-> << >>, prices |-> << >>]

\* SQLiteSandbox(db_path) before connect(), the file not being there; inserts
\* counts the insert_sample_data calls completed on the file.
NewSandbox ==
    [exists |-> FALSE, db |-> EmptyFile, conn |-> PyNone, inserts |-> 0,
     out |-> [op |-> "none"]]

\* INSERT INTO a table whose id is INTEGER PRIMARY KEY AUTOINCREMENT; no row
\* is ever deleted, so the next id is the number of rows plus one.
insert_row(table, row) == Append(table, [id |-> Len(table) + 1] @@ row)

\* An INSERT INTO stocks that does not enforce UNIQUE on symbol.
insert_stock_no_unique(stocks, row) ==
    [raised |-> "none", stocks |-> insert_row(stocks, row)]

\* INSERT INTO stocks: symbol is UNIQUE NOT NULL.
insert_stock(stocks, row) ==
    IF \E i \in DOMAIN stocks : stocks[i].symbol = row.symbol
    THEN [raised |-> "IntegrityError", stocks |-> stocks]
    ELSE [raised |-> "none", stocks |-> insert_row(stocks, row)]

\* for symbol, name, sector in stocks_data: try: INSERT; except
\* sqlite3.IntegrityError: print "already exists".  printed lists the symbols
\* of the rows that were skipped.
RECURSIVE insert_stocks(_, _, _)
insert_stocks(stocks, rows, printed) ==
    IF rows = << >>
    THEN [stocks |-> stocks, printed |-> printed]
    ELSE LET r == insert_stock(stocks, Head(rows))
         IN  insert_stocks(r.stocks, Tail(rows),
                           IF r.raised = "IntegrityError"
                           THEN Append(printed, Head(rows).symbol) ELSE printed)

\* for ... in portfolio_data / prices_data: INSERT, with no condition.
RECURSIVE insert_rows(_, _)
insert_rows(table, rows) ==
    IF rows = << >> THEN table
    ELSE insert_rows(insert_row(table, Head(rows)), Tail(rows))

\* What a statement does when the sandbox cannot run it: self.cursor is None
\* before connect(), the connection is closed after disconnect(), and a
\* statement on a table that does not exist is refused.
cursor_error(sandbox, needs_tables) ==
    IF sandbox.conn = PyNone THEN "AttributeError"
    ELSE IF sandbox.conn = "closed" THEN "ProgrammingError"
    ELSE IF needs_tables /\ ~sandbox.db.tables THEN "OperationalError"
    ELSE "none"

\* insert_sample_data(): the database after the call and what was raised.
insert_sample_data(sandbox) ==
    LET raised == cursor_error(sandbox, TRUE)
        stocks == insert_stocks(sandbox.db.stocks, stocks_data, << >>)
    IN  IF raised # "none"
        THEN [raised |-> raised, printed |-> << >>, db |-> sandbox.db]
        ELSE [raised |-> "none", printed |-> stocks.printed,
              db |-> [tables |-> TRUE, stocks |-> stocks.stocks,
                      portfolio |-> insert_rows(sandbox.db.portfolio, portfolio_data),
                      prices |-> insert_rows(sandbox.db.prices, prices_data)]]

\* SELECT MAX(date) FROM prices WHERE stock_id = ?
max_date(prices, stock_id) ==
    LET dates == {prices[i].date : i \in {j \in DOMAIN prices :
                                            prices[j].stock_id = stock_id}}
    IN  CHOOSE d \in dates : \A e \in dates : e <= d

\* Query 4 of test_queries: FROM portfolio p JOIN stocks s ON p.stock_id =
\* s.id JOIN prices pr ON s.id = pr.stock_id WHERE pr.date = (SELECT MAX(date)
\* FROM prices WHERE stock_id = pr.stock_id).  One result row for every
\* matching triple of rows; p and pr are the ids of the joined rows.
portfolio_value(db) ==
    LET matches == {t \in (DOMAIN db.portfolio) \X (DOMAIN db.stocks) \X (DOMAIN db.prices) :
                      /\ db.portfolio[t[1]].stock_id = db.stocks[t[2]].id
                      /\ db.stocks[t[2]].id = db.prices[t[3]].stock_id
                      /\ db.prices[t[3]].date
                           = max_date(db.prices, db.prices[t[3]].stock_id)}
    IN  {LET p == db.portfolio[t[1]]
             s == db.stocks[t[2]]
             pr == db.prices[t[3]]
         IN  [p |-> p.id, pr |-> pr.id, symbol |-> s.symbol, shares |-> p.shares,
              price |-> pr.price,
              current_value |-> p.shares * pr.price,
              invested_value |-> p.shares * p.purchase_price,
              gain_loss |-> (p.shares * pr.price) - (p.shares * p.purchase_price)]
         : t \in matches}

\* for item in portfolio_value: total_invested += invested_val;
\* total_current += current_val.
RECURSIVE totals(_, _, _)
totals(items, total_invested, total_current) ==
    IF items = {}
    THEN [total_invested |-> total_invested, total_current |-> total_current]
    ELSE LET item == CHOOSE item \in items : TRUE
         IN  totals(items \ {item}, total_invested + item.invested_value,
                    total_current + item.current_value)

\* test_queries(): what the valuation prints.
test_queries(sandbox) ==
    LET raised == cursor_error(sandbox, TRUE)
        items == portfolio_value(sandbox.db)
        sums == totals(items, 0, 0)
    IN  IF raised # "none"
        THEN [op |-> "test_queries", raised |-> raised]
        ELSE [op |-> "test_queries", raised |-> "none",
              items |-> Cardinality(items),
              total_invested |-> sums.total_invested,
              total_current |-> sums.total_current,
              gain_loss |-> sums.total_current - sums.total_invested]

SqlFrame == UNCHANGED <<pvars, helper, nvars, summary, environ, last, clients>>

\* sandbox = SQLiteSandbox(db_path): a new object for the path, whatever
\* object worked on the file before.
CallSQLiteSandbox(db_path) ==
    /\ sql' = [sql EXCEPT ![db_path].conn = PyNone,
                          ![db_path].out = [op |-> "SQLiteSandbox"]]
    /\ SqlFrame

\* connect(): sqlite3.connect creates the file when it is not there.
connect(db_path) ==
    /\ sql' = [sql EXCEPT ![db_path].conn = "open",
                          ![db_path].exists = TRUE,
                          ![db_path].out = [op |-> "connect"]]
    /\ SqlFrame

\* disconnect(): if self.conn: self.conn.close().
disconnect(db_path) ==
    /\ sql' = [sql EXCEPT ![db_path].conn = IF @ = PyNone THEN PyNone ELSE "closed",
                          ![db_path].out = [op |-> "disconnect"]]
    /\ SqlFrame

\* create_tables(): three CREATE TABLE IF NOT EXISTS and a commit.
create_tables(db_path) ==
    LET raised == cursor_error(sql[db_path], FALSE)
    IN  /\ sql' = [sql EXCEPT ![db_path].db.tables = (raised = "none") \/ @,
                              ![db_path].out = [op |-> "create_tables",
                                                raised |-> raised]]
        /\ SqlFrame

CallInsertSampleData(db_path) ==
    LET r == insert_sample_data(sql[db_path])
    IN  /\ r.raised = "none" => sql[db_path].inserts < MaxInserts
        /\ sql' = [sql EXCEPT ![db_path].db = r.db,
                              ![db_path].inserts = IF r.raised = "none" THEN @ + 1 ELSE @,
                              ![db_path].out = [op |-> "insert_sample_data",
                                                raised |-> r.raised,
                                                printed |-> r.printed]]
        /\ SqlFrame

CallTestQueries(db_path) ==
    /\ sql' = [sql EXCEPT ![db_path].out = test_queries(sql[db_path])]
    /\ SqlFrame

\* cleanup(): if os.path.exists(self.db_path): os.remove(self.db_path).  It is
\* called as main would call it, after disconnect(), on a sandbox that holds
\* no open connection.
cleanup(db_path) ==
    /\ sql[db_path].conn # "open"
    /\ sql' = [sql EXCEPT ![db_path].exists = FALSE,
                          ![db_path].db = EmptyFile,
                          ![db_path].inserts = 0,
                          ![db_path].out = [op |-> "cleanup", removed |-> sql[db_path].exists]]
    /\ SqlFrame

----------------------------------------------------------------------------
(* Specifications *)

NoSummary == [kind |-> "none"]

NoCall == [op |-> "none"]

NoDatabases == [none |-> TRUE]

\* Nothing of news_client.py has been used and no summary has been made.
ApiIdle ==
    /\ summary = NoSummary
    /\ environ = [API_NEWS_KEY |-> PyNone]
    /\ last = NoCall
    /\ clients = 0
    /\ sql = NoDatabases

NoNews ==
    [called |-> FALSE, symbol |-> "", company_name |-> "", events |-> << >>,
     all_articles |-> << >>, articles |-> << >>]

\* No sandbox has been used and every search page is empty.
NewsIdle ==
    /\ input = << >>
    /\ log = << >>
    /\ web = [q \in Queries |-> [ok |-> TRUE, elements |-> << >>]]
    /\ requests = [i \in Sandboxes |-> 0]
    /\ news = NoNews

PortfolioIdle ==
    /\ positions = Portfolio_init
    /\ quotes = [s \in Symbols |-> 0]
    /\ hist = << >>

NoHelperCall ==
    [numerator |-> 0, denominator |-> 1, default |-> 0, called |-> FALSE,
     ret |-> NoneValue]

\* A new Portfolio and a quote source with a fixed price per symbol.
PortfolioInit ==
    /\ ApiIdle
    /\ positions = Portfolio_init
    /\ quotes \in [Symbols -> 0 .. MaxPrice]
    /\ hist = << >>
    /\ helper = NoHelperCall
    /\ NewsIdle

PortfolioNext ==
    \/ \E symbol \in Symbols, shares \in Shares, price \in Prices :
          add_position(symbol, shares, price)
    \/ \E symbol \in Symbols : remove_position(symbol)
    \/ get_total_value
    \/ \E period \in Periods : get_performance(period)

SpecPortfolio == PortfolioInit /\ [][PortfolioNext]_vars

\* The arguments of one safe_divide call.
HelpersInit ==
    /\ ApiIdle
    /\ PortfolioIdle
    /\ NewsIdle
    /\ \E n \in Numerators, d \in Denominators, dflt \in Defaults :
          helper = [numerator |-> n, denominator |-> d, default |-> dflt,
                    called |-> FALSE, ret |-> NoneValue]

HelpersNext == CallSafeDivide

SpecHelpers == HelpersInit /\ [][HelpersNext]_vars

\* Two new sandboxes and a text to analyse.
SentimentInit ==
    /\ ApiIdle
    /\ PortfolioIdle
    /\ helper = NoHelperCall
    /\ input \in Texts
    /\ log = << >>
    /\ web = [q \in Queries |-> [ok |-> TRUE, elements |-> << >>]]
    /\ requests = [i \in Sandboxes |-> 0]
    /\ news = NoNews

SentimentNext == \E self \in Sandboxes : AnalyzeText(self)

SpecSentiment == SentimentInit /\ [][SentimentNext]_vars

\* Two new sandboxes and a text that is analysed alone and repeated.
RepeatInit ==
    /\ ApiIdle
    /\ PortfolioIdle
    /\ helper = NoHelperCall
    /\ input \in RepeatTexts
    /\ log = << >>
    /\ web = [q \in Queries |-> [ok |-> TRUE, elements |-> << >>]]
    /\ requests = [i \in Sandboxes |-> 0]
    /\ news = NoNews

RepeatNext ==
    \/ \E self \in Sandboxes : AnalyzeText(self)
    \/ \E self \in Sandboxes : AnalyzeRepeated(self)

SpecRepeat == RepeatInit /\ [][RepeatNext]_vars

\* Two new sandboxes that search the web and analyse a headline, in any order.
\* Every search page shows the headline.
SessionInit ==
    /\ ApiIdle
    /\ PortfolioIdle
    /\ helper = NoHelperCall
    /\ \E k \in DOMAIN Titles :
          /\ input = Titles[k]
          /\ web = [q \in Queries |-> [ok |-> TRUE, elements |-> <<Titles[k]>>]]
    /\ log = << >>
    /\ requests = [i \in Sandboxes |-> 0]
    /\ news = NoNews

SessionNext ==
    \/ \E self \in Sandboxes : AnalyzeText(self)
    \/ \E self \in Sandboxes, symbol \in NewsSymbols, company_name \in CompanyNames :
          get_stock_news(self, symbol, company_name)

SpecSession == SessionInit /\ [][SessionNext]_vars

\* Two new sandboxes and a web with any search pages.
NewsInit ==
    /\ ApiIdle
    /\ PortfolioIdle
    /\ helper = NoHelperCall
    /\ input = << >>
    /\ log = << >>
    /\ web \in [Queries -> Pages]
    /\ requests = [i \in Sandboxes |-> 0]
    /\ news = NoNews

NewsNext ==
    \E self \in Sandboxes, symbol \in NewsSymbols, company_name \in CompanyNames :
        get_stock_news(self, symbol, company_name)

SpecNews == NewsInit /\ [][NewsNext]_vars

\* Two new sandboxes and a web whose search pages show up to MaxHeadlines
\* headlines each.
SummaryInit ==
    /\ PortfolioIdle
    /\ helper = NoHelperCall
    /\ ApiIdle
    /\ input = << >>
    /\ log = << >>
    /\ web \in [Queries -> HeadlinePages]
    /\ requests = [i \in Sandboxes |-> 0]
    /\ news = NoNews

SummaryNext ==
    \E self \in Sandboxes, symbol \in NewsSymbols, company_name \in CompanyNames :
        create_news_summary(self, symbol, company_name)

SpecSummary == SummaryInit /\ [][SummaryNext]_vars

\* The NewsAPI client: API_NEWS_KEY is not set, empty or set.
ApiInit ==
    /\ PortfolioIdle
    /\ helper = NoHelperCall
    /\ NewsIdle
    /\ summary = NoSummary
    /\ environ \in [API_NEWS_KEY : EnvValues]
    /\ last = NoCall
    /\ clients = 0
    /\ sql = NoDatabases

ApiNext ==
    \/ \E api_key \in ApiKeys : CallNewsAPIClient(api_key)
    \/ \E q \in Keywords, sources \in SourceIds, category \in Categories,
          country \in Countries, reply \in Replies :
           CallGetTopHeadlines(q, sources, category, country, reply)
    \/ \E q \in Keywords, sources \in SourceIds, reply \in Replies :
           CallGetEverything(q, sources, reply)
    \/ \E category \in Categories, country \in Countries, reply \in Replies :
           CallGetSources(category, country, reply)
    \/ \E endpoint \in Endpoints, q \in Keywords, sources \in SourceIds,
          reply \in Replies :
           CallGetNews(endpoint, q, sources, reply)

SpecApi == ApiInit /\ [][ApiNext]_vars

\* The calls out of the sandboxes and of a NewsAPI client: each search page
\* fails or shows one headline, a NewsAPI request fails or finds no article.
FetchPages == {[ok |-> FALSE, elements |-> << >>],
               [ok |-> TRUE, elements |-> << Titles[1] >>]}

FetchReplies == {reply \in Replies : reply.articles = << >>}

FetchInit ==
    /\ PortfolioIdle
    /\ helper = NoHelperCall
    /\ input = << >>
    /\ log = << >>
    /\ web \in [Queries -> FetchPages]
    /\ requests = [i \in Sandboxes |-> 0]
    /\ news = NoNews
    /\ summary = NoSummary
    /\ environ = [API_NEWS_KEY |-> "env-key"]
    /\ last = NoCall
    /\ clients = 0
    /\ sql = NoDatabases

FetchNext ==
    \/ \E self \in Sandboxes, query \in Queries : CallSearchNews(self, query)
    \/ \E raises \in BOOLEAN : CallGetStockInfo(raises)
    \/ \E raises \in BOOLEAN, days \in 0 .. MaxResults :
           CallGetHistoricalData(raises, days)
    \/ \E empty \in BOOLEAN, raises \in BOOLEAN, beta \in Betas :
           CallCalculateMetrics(empty, raises, beta)
    \/ \E outcome \in HFOutcomes : CallHuggingFace(outcome)
    \/ \E q \in Keywords, sources \in SourceIds, category \in Categories,
          country \in Countries, reply \in FetchReplies :
           CallGetTopHeadlines(q, sources, category, country, reply)
    \/ \E q \in Keywords, sources \in SourceIds, reply \in FetchReplies :
           CallGetEverything(q, sources, reply)
    \/ \E category \in Categories, country \in Countries, reply \in FetchReplies :
           CallGetSources(category, country, reply)

SpecFetch == FetchInit /\ [][FetchNext]_vars

\* Two new sandboxes and a web whose search pages are long, broken,
\* repeating, empty or failing.
LimitsInit ==
    /\ PortfolioIdle
    /\ helper = NoHelperCall
    /\ ApiIdle
    /\ input = << >>
    /\ log = << >>
    /\ web \in [Queries -> LimitPages]
    /\ requests = [i \in Sandboxes |-> 0]
    /\ news = NoNews

LimitsNext ==
    \E self \in Sandboxes, symbol \in NewsSymbols, company_name \in CompanyNames :
        get_stock_news(self, symbol, company_name)

SpecLimits == LimitsInit /\ [][LimitsNext]_vars

\* Two new sandboxes and a web with a page for each of the seven market
\* queries.
MarketInit ==
    /\ PortfolioIdle
    /\ helper = NoHelperCall
    /\ input = << >>
    /\ log = << >>
    /\ web \in [MarketQueries -> MarketPages]
    /\ requests = [i \in Sandboxes |-> 0]
    /\ news = NoNews
    /\ ApiIdle

MarketNext == \E self \in Sandboxes : get_market_news(self)

SpecMarket == MarketInit /\ [][MarketNext]_vars

\* Two new sandboxes and a web with a page for each symbol.
CompareInit ==
    /\ PortfolioIdle
    /\ helper = NoHelperCall
    /\ input = << >>
    /\ log = << >>
    /\ web \in [Symbols -> ComparePages]
    /\ requests = [i \in Sandboxes |-> 0]
    /\ news = NoNews
    /\ ApiIdle

CompareNext ==
    \E self \in Sandboxes, symbols \in SymbolLists, names \in CompanyNameLists :
        compare_stock_news(self, symbols, names)

SpecCompare == CompareInit /\ [][CompareNext]_vars

\* A sandbox for each database path, no file on disk yet.
SqliteInit ==
    /\ PortfolioIdle
    /\ helper = NoHelperCall
    /\ NewsIdle
    /\ summary = NoSummary
    /\ environ = [API_NEWS_KEY |-> PyNone]
    /\ last = NoCall
    /\ clients = 0
    /\ sql = [db_path \in DbPaths |-> NewSandbox]

SqliteNext ==
    \/ \E db_path \in DbPaths : CallSQLiteSandbox(db_path)
    \/ \E db_path \in DbPaths : connect(db_path)
    \/ \E db_path \in DbPaths : create_tables(db_path)
    \/ \E db_path \in DbPaths : CallInsertSampleData(db_path)
    \/ \E db_path \in DbPaths : CallTestQueries(db_path)
    \/ \E db_path \in DbPaths : disconnect(db_path)
    \/ \E db_path \in DbPaths : cleanup(db_path)

SpecSqlite == SqliteInit /\ [][SqliteNext]_vars

----------------------------------------------------------------------------
(* Portfolio and helpers: properties *)

IsValue(ret, v) == ret.kind = "value" /\ ret.val = v

CallsOf(op) == {i \in DOMAIN hist : hist[i].op = op}

\* C1: on a new portfolio, add_position(symbol, shares, price) with shares > 0
\* and price >= 0 followed by get_total_value(), the quote source reporting
\* that same price for the symbol, returns exactly shares * price.
C1_AddThenTotalValue ==
    ( /\ Len(hist) >= 2
      /\ hist[1].op = "add_position"
      /\ hist[1].shares > 0
      /\ hist[1].price >= 0
      /\ hist[2].op = "get_total_value"
      /\ quotes[hist[1].symbol] = hist[1].price )
    => IsValue(hist[2].ret, hist[1].shares * hist[1].price)

\* C2: get_performance on a portfolio with no positions returns without
\* raising and reports a total return of 0.
C2_EmptyPerformanceIsZero ==
    \A i \in CallsOf("get_performance") :
        DOMAIN hist[i].before = {}
        => /\ hist[i].raised = "none"
           /\ hist[i].ret.kind = "dict"
           /\ hist[i].ret.val.total_return_pct = 0

\* C3: safe_divide(numerator, denominator, default) returns default when the
\* denominator is 0 and the quotient numerator / denominator otherwise.
C3_SafeDivide ==
    helper.called
    => /\ helper.ret.kind = "value"
       /\ helper.denominator = 0 => helper.ret.val = helper.default
       /\ helper.denominator # 0
             => helper.ret.val * helper.denominator = helper.numerator

\* C9: add_position raises ValidationError and leaves the positions unchanged
\* when shares <= 0 or price < 0, and returns True when shares > 0 and
\* price >= 0.
C9_AddPositionValidates ==
    \A i \in CallsOf("add_position") :
        IF hist[i].shares <= 0 \/ hist[i].price < 0
        THEN /\ hist[i].raised = "ValidationError"
             /\ hist[i].after = hist[i].before
        ELSE /\ hist[i].raised = "none"
             /\ hist[i].ret.kind = "bool"
             /\ hist[i].ret.val = TRUE

\* C10: remove_position(symbol) returns True and drops the symbol when it is
\* held; when it is not held it raises NotFoundError or returns False, and
\* the positions are unchanged.
C10_RemovePosition ==
    \A i \in CallsOf("remove_position") :
        IF hist[i].symbol \in DOMAIN hist[i].before
        THEN /\ hist[i].raised = "none"
             /\ hist[i].ret.kind = "bool"
             /\ hist[i].ret.val = TRUE
             /\ hist[i].symbol \notin DOMAIN hist[i].after
        ELSE /\ \/ hist[i].raised = "NotFoundError"
                \/ hist[i].ret.kind = "bool" /\ hist[i].ret.val = FALSE
             /\ hist[i].after = hist[i].before


\* The sum of f[s] over the symbols s of S.
RECURSIVE SumOver(_, _)
SumOver(f, S) ==
    IF S = {} THEN 0
    ELSE LET s == CHOOSE x \in S : TRUE
         IN  f[s] + SumOver(f, S \ {s})

\* The value of the positions at the quoted prices, and what was paid for them.
QuotedValue(held) ==
    SumOver([s \in DOMAIN held |-> quotes[s] * held[s].shares], DOMAIN held)
InvestedValue(held) ==
    SumOver([s \in DOMAIN held |-> held[s].price * held[s].shares], DOMAIN held)

\* C11: get_total_value returns the sum over the held positions of quote
\* price * shares, or fails with QuoteUnavailableError when a quote fetch
\* fails; it never returns anything else.
C11_TotalValueIsSum ==
    \A i \in CallsOf("get_total_value") :
        \/ hist[i].raised = "QuoteUnavailableError"
        \/ /\ hist[i].raised = "none"
           /\ IsValue(hist[i].ret, QuotedValue(hist[i].before))

\* C12: get_performance returns a dictionary with invested_value (shares *
\* cost basis summed over the positions), current_value (the quoted value)
\* and, when invested_value is not zero, total_return_pct = (current_value -
\* invested_value) / invested_value.
C12_PerformanceMetrics ==
    \A i \in CallsOf("get_performance") :
        LET invested == InvestedValue(hist[i].before)
            current == QuotedValue(hist[i].before)
        IN  /\ hist[i].ret.kind = "dict"
            /\ hist[i].ret.val.invested_value = invested
            /\ hist[i].ret.val.current_value = current
            /\ invested # 0 =>
                  hist[i].ret.val.total_return_pct * invested = current - invested

----------------------------------------------------------------------------
(* GoogleNewsSandbox: properties *)

Results == {log[i].result : i \in DOMAIN log}

\* C4: the label is positive when the positive count is strictly greater,
\* negative when the negative count is strictly greater, and neutral exactly
\* when the two counts are equal.
C4_Label ==
    \A r \in Results :
        /\ r.positive_words > r.negative_words => r.sentiment = "positive"
        /\ r.negative_words > r.positive_words => r.sentiment = "negative"
        /\ r.sentiment = "neutral" <=> r.positive_words = r.negative_words

\* A text with as many positive as negative hits, and at least one, was
\* labelled neutral.
C4_Witness ==
    \E r \in Results :
        /\ r.positive_words = r.negative_words
        /\ r.positive_words > 0
        /\ r.sentiment = "neutral"

\* C5: a non-neutral score is winning_count / (positive_count +
\* negative_count + 1) to the nearest thousandth, winning_count being the
\* larger count; a neutral score is exactly 0.5.
C5_Score ==
    \A r \in Results :
        LET winning == IF r.positive_words > r.negative_words
                       THEN r.positive_words ELSE r.negative_words
            divisor == r.positive_words + r.negative_words + 1
            error == 1000 * winning - r.score * divisor
        IN  IF r.sentiment = "neutral"
            THEN r.score = 500
            ELSE /\ 2 * error <= divisor
                 /\ -2 * error <= divisor

\* A non-neutral text with hits on both sides was scored, and its quotient
\* had to be rounded.
C5_Witness ==
    \E r \in Results :
        /\ r.sentiment # "neutral"
        /\ r.positive_words > 0
        /\ r.negative_words > 0
        /\ (1000 * r.positive_words) % (r.positive_words + r.negative_words + 1) # 0

\* C6: two analyze_sentiment calls with the same text return the same label,
\* score and counts, whichever sandbox they are made on and whatever that
\* sandbox did before.
C6_Deterministic ==
    \A i, j \in DOMAIN log :
        log[i].text = log[j].text => log[i].result = log[j].result

\* The text was analysed on two sandboxes that had issued different numbers
\* of requests.
C6_Witness ==
    \E i, j \in DOMAIN log :
        /\ log[i].self # log[j].self
        /\ log[i].session # log[j].session
        /\ log[i].text = log[j].text

\* The letters a and b are the same up to case.
SameLetter(a, b) ==
    \/ a = b
    \/ a \in DOMAIN to_lower /\ to_lower[a] = b
    \/ b \in DOMAIN to_lower /\ to_lower[b] = a

\* word occurs in the text at some position, in any mix of cases, whatever
\* surrounds it.
OccursIn(word, t) ==
    \E i \in 1 .. (Len(t) - Len(word) + 1) :
        \A k \in 1 .. Len(word) : SameLetter(t[i + k - 1], word[k])

\* C7: a keyword counts as a hit exactly when it occurs somewhere in the
\* text, case ignored and word boundaries ignored.
C7_CaseInsensitiveSubstring ==
    \A i \in DOMAIN log :
        /\ log[i].result.positive_words =
              Cardinality({k \in DOMAIN positive_words :
                              OccursIn(positive_words[k], log[i].text)})
        /\ log[i].result.negative_words =
              Cardinality({k \in DOMAIN negative_words :
                              OccursIn(negative_words[k], log[i].text)})

\* "Downgrade supply" was analysed: `down` inside Downgrade and `up` inside
\* supply each counted.
C7_Witness ==
    \E i \in DOMAIN log :
        /\ log[i].text = Fragments[4] \o <<" ">> \o Fragments[3]
        /\ log[i].result.negative_words = 1
        /\ log[i].result.positive_words = 1

TitlesOf(articles) == {articles[i].title : i \in DOMAIN articles}

\* C8: no two articles returned by get_stock_news have the same title, and
\* every title the searches found is in the result once (as long as no more
\* than UniqueLimit distinct titles were found).
C8_NoDuplicateTitles ==
    news.called =>
        /\ \A i, j \in DOMAIN news.articles :
              i # j => news.articles[i].title # news.articles[j].title
        /\ TitlesOf(news.articles) \subseteq TitlesOf(news.all_articles)
        /\ Cardinality(TitlesOf(news.all_articles)) <= UniqueLimit
              => TitlesOf(news.articles) = TitlesOf(news.all_articles)

\* Two different queries found the same title and the result still holds
\* two articles.
C8_Witness ==
    /\ news.called
    /\ Len(news.articles) >= 2
    /\ \E i, j \in DOMAIN news.all_articles :
          /\ news.all_articles[i].title = news.all_articles[j].title
          /\ news.all_articles[i].query # news.all_articles[j].query


\* C20: every result of analyze_sentiment has a label among positive,
\* negative and neutral, a score in [0, 1] (0 .. 1000 thousandths) and two
\* counts that are non-negative integers.
C20_WellFormed ==
    \A r \in Results :
        /\ r.sentiment \in {"positive", "negative", "neutral"}
        /\ r.score \in 0 .. 1000
        /\ r.positive_words \in Nat
        /\ r.negative_words \in Nat

\* A text with several negative hits was scored above 0.5 and below 1.
C20_Witness ==
    \E r \in Results :
        /\ r.sentiment = "negative"
        /\ r.negative_words > 1
        /\ r.score > 500
        /\ r.score < 1000


\* C17: get_stock_news searches for the symbol alone when company_name is
\* empty, and otherwise for the symbol, the company name and "symbol
\* company_name" in that order; each search issues one GET and has returned
\* before a sleep of 1 second, and the sleep is over before the next search.
C17_SequentialSearches ==
    news.called =>
        LET expected ==
                IF news.company_name = ""
                THEN <<news.symbol>>
                ELSE <<news.symbol, news.company_name,
                       news.symbol \o " " \o news.company_name>>
        IN  /\ Len(news.events) = 3 * Len(expected)
            /\ \A k \in DOMAIN expected :
                  /\ news.events[3 * k - 2] = [ev |-> "GET", query |-> expected[k], seconds |-> 0]
                  /\ news.events[3 * k - 1] = [ev |-> "return", query |-> expected[k], seconds |-> 0]
                  /\ news.events[3 * k] = [ev |-> "sleep", query |-> expected[k], seconds |-> 1]

\* get_stock_news ran its three searches for a symbol with a company name.
C17_Witness ==
    /\ news.called
    /\ news.company_name # ""
    /\ Len(news.events) = 9
    /\ \E i \in Sandboxes : requests[i] = 3


\* The sum of counts[label] over the labels of L.
RECURSIVE SumCounts(_, _)
SumCounts(counts, L) ==
    IF L = {} THEN 0
    ELSE LET l == CHOOSE x \in L : TRUE
         IN  counts[l] + SumCounts(counts, L \ {l})

\* C14: a summary reports total_articles equal to the number of articles
\* get_stock_news returned, a sentiment_distribution over the three labels
\* whose counts sum to total_articles, and an average_sentiment_score that
\* is the unweighted mean of the articles' title scores to the nearest
\* thousandth.
C14_SummaryStatistics ==
    "total_articles" \in DOMAIN summary =>
        LET n == summary.total_articles
            rows == summary.all_articles
            dist == summary.sentiment_distribution
        IN  /\ n = Len(news.articles)
            /\ Len(rows) = n
            /\ \A i \in DOMAIN rows : rows[i].title = news.articles[i].title
            /\ DOMAIN dist \subseteq {"positive", "negative", "neutral"}
            /\ SumCounts(dist, DOMAIN dist) = n
            /\ 2 * (summary.average_sentiment_score * n - sum_scores(rows)) <= n
            /\ 2 * (sum_scores(rows) - summary.average_sentiment_score * n) <= n

\* A summary of three articles with three different labels, one of them
\* scored 0.667, whose mean 0.5557 was rounded to 0.556.
C14_Witness ==
    /\ "total_articles" \in DOMAIN summary
    /\ summary.total_articles = 3
    /\ Cardinality(DOMAIN summary.sentiment_distribution) = 3
    /\ summary.average_sentiment_score = 556

----------------------------------------------------------------------------
(* NewsAPI client and calls out of the sandboxes: properties *)

\* C19: NewsAPIClient(api_key) with no api_key reads API_NEWS_KEY from the
\* environment and raises ValueError when it is not set or empty; with an
\* api_key given, that key is used as it is and the environment is not read.
C19_ClientKey ==
    last.op = "NewsAPIClient" =>
        IF last.api_key = PyNone
        THEN /\ last.out.getenv
             /\ IF environ.API_NEWS_KEY \in {PyNone, ""}
                THEN last.out.raised = "ValueError" /\ last.out.client = PyNone
                ELSE last.out.raised = "none"
                     /\ last.out.client = environ.API_NEWS_KEY
        ELSE /\ ~last.out.getenv
             /\ last.out.raised = "none"
             /\ last.out.client = last.api_key

\* The empty key given explicitly, API_NEWS_KEY being set: the client is
\* created with the empty key.
C19_Witness ==
    /\ last.op = "NewsAPIClient"
    /\ last.api_key = ""
    /\ environ.API_NEWS_KEY = "env-key"
    /\ last.out.raised = "none"
    /\ last.out.client = ""

C18_AsStated ==
    last.op = "get_news" =>
        CASE last.endpoint = "top_headlines" -> last.out.called = "get_top_headlines"
          [] last.endpoint = "everything" -> last.out.called = "get_everything"
          [] OTHER -> last.out.raised = "ValueError" /\ last.out.called = "none"

\* C18: get_news first constructs NewsAPIClient(); when API_NEWS_KEY is not
\* set or empty that raises ValueError and no fetch method is called,
\* whatever the endpoint. Otherwise it calls get_top_headlines for
\* "top_headlines" and get_everything for "everything", with the keyword
\* arguments, and hands back what the method returns or raises; for any other
\* endpoint it raises ValueError and calls neither.
C18_Dispatch ==
    last.op = "get_news" =>
        IF environ.API_NEWS_KEY \in {PyNone, ""}
        THEN /\ ~last.out.constructed
             /\ last.out.called = "none"
             /\ last.out.raised = "ValueError"
        ELSE /\ last.out.constructed
             /\ CASE last.endpoint = "top_headlines" ->
                       /\ last.out.called = "get_top_headlines"
                       /\ last.out.raised \in {"none", "Exception"}
                       /\ last.out.raised = "none" <=> ~last.failed
                  [] last.endpoint = "everything" ->
                       /\ last.out.called = "get_everything"
                       /\ last.out.raised \in {"none", "Exception"}
                       /\ last.out.raised = "none" <=> ~last.failed
                  [] OTHER ->
                       /\ last.out.called = "none"
                       /\ last.out.raised = "ValueError"
                       /\ ~last.out.returned

\* get_news("everything") with API_NEWS_KEY set: get_everything was called and
\* its response returned.
C18_Witness ==
    /\ last.op = "get_news"
    /\ last.endpoint = "everything"
    /\ environ.API_NEWS_KEY = "env-key"
    /\ last.out.called = "get_everything"
    /\ last.out.returned
    /\ last.out.ret.total_results = MaxResults

FetchOps == {"search_news", "get_stock_info", "get_historical_data",
             "get_llama_completion", "get_financial_sentiment", "get_bart_summary"}

ClientOps == {"get_top_headlines", "get_everything", "get_sources"}

Prefixes == [get_top_headlines |-> "Error fetching top headlines: ",
             get_everything |-> "Error fetching articles: ",
             get_sources |-> "Error fetching sources: "]

EmptyKind == [search_news |-> "list", get_stock_info |-> "dict",
              get_historical_data |-> "frame", get_llama_completion |-> "None",
              get_financial_sentiment |-> "None", get_bart_summary |-> "None"]

\* C16 as stated: every operation whose external call raised prints a
\* message and returns an empty or None result, and no exception reaches its
\* caller, the NewsAPI client's fetch methods included.
C16_AsStated ==
    (last.op \in FetchOps \cup ClientOps \cup {"calculate_metrics"} /\ last.failed)
    => /\ last.out.raised = "none"
       /\ last.op \notin ClientOps
          => /\ last.out.printed = "error"
             /\ last.out.ret.size = 0

\* C16: of the sandbox operations that make an external call themselves,
\* search_news, get_stock_info, get_historical_data and the Hugging Face
\* helpers catch an exception of that call, print an error message and return
\* their empty value ([], {}, an empty frame, None) without raising;
\* calculate_metrics catches it without a message, takes beta as 0 and
\* returns its metrics; a fetch method of the NewsAPI client catches it and
\* raises Exception with its own message prefix, returning nothing.
C16_CaughtOrReraised ==
    /\ (last.op \in FetchOps /\ last.failed)
       => /\ last.out.raised = "none"
          /\ last.out.printed = "error"
          /\ last.out.ret = [kind |-> EmptyKind[last.op], size |-> 0]
    /\ (last.op = "calculate_metrics" /\ last.failed)
       => /\ last.out.raised = "none"
          /\ last.out.printed = "none"
          /\ last.out.ret = [kind |-> "dict", size |-> MetricKeys]
          /\ last.out.beta = 0
    /\ (last.op \in ClientOps /\ last.failed)
       => /\ last.out.raised = "Exception"
          /\ ~last.out.returned
          /\ last.out.message = Prefixes[last.op]

\* A failed request under get_everything: the caller gets an Exception.
C16_Witness ==
    /\ last.op = "get_everything"
    /\ last.failed
    /\ last.out.raised = "Exception"
    /\ last.out.cause = "NewsAPIException"

----------------------------------------------------------------------------
(* Searches at their limits: properties *)

\* The positions of all_articles that hold the first article of their title.
FirstOfTitle(all_articles) ==
    {i \in DOMAIN all_articles :
        \A j \in 1 .. i - 1 : all_articles[j].title # all_articles[i].title}

\* The k-th smallest member of the set of positions K.
Kth(K, k) == CHOOSE i \in K : Cardinality({j \in K : j < i}) = k - 1

\* The position of a query among the queries of the call.
QueryIndex(query) ==
    CHOOSE k \in DOMAIN stock_queries(news.symbol, news.company_name) :
        stock_queries(news.symbol, news.company_name)[k] = query

\* C21: get_stock_news keeps for each title the first article seen in query
\* order, in the order the articles were found, and returns the first
\* UniqueLimit (15) of them.
C21_FirstSeenKept ==
    news.called =>
        LET all == news.all_articles
            K == FirstOfTitle(all)
        IN  /\ \A i, j \in DOMAIN all :
                  i < j => QueryIndex(all[i].query) <= QueryIndex(all[j].query)
            /\ Len(news.articles) = Min(Cardinality(K), UniqueLimit)
            /\ Len(news.articles) <= 15
            /\ \A k \in DOMAIN news.articles : news.articles[k] = all[Kth(K, k)]

\* More than UniqueLimit distinct titles were found, one of them by two
\* queries: 15 articles come back and the repeated title comes from the
\* earlier query.
C21_Witness ==
    /\ news.called
    /\ Cardinality(TitlesOf(news.all_articles)) > UniqueLimit
    /\ Len(news.articles) = UniqueLimit
    /\ \E i, j \in DOMAIN news.all_articles :
          /\ i < j
          /\ news.all_articles[i].title = news.all_articles[j].title
          /\ news.all_articles[i].query # news.all_articles[j].query
          /\ news.all_articles[i] \in {news.articles[k] : k \in DOMAIN news.articles}

\* The headlines search_news can read on the page of a query.
Readable(query) ==
    {web[query].elements[i] :
        i \in {j \in 1 .. Min(Len(web[query].elements), SearchLimit) :
                  Parses(web[query].elements[j])}}

\* C22: in get_stock_news a search that fails contributes no article and
\* does not stop the operation: every query of the call is still issued and
\* the call returns; each headline read by a search that succeeded is among
\* the articles collected, and among those returned unless a title was
\* dropped by the limit of 15.
C22_FailedSearchSkipped ==
    news.called =>
        LET queries == stock_queries(news.symbol, news.company_name)
        IN  /\ \A k \in DOMAIN queries :
                  /\ \E e \in DOMAIN news.events :
                        news.events[e] = Event("GET", queries[k], 0)
                  /\ ~web[queries[k]].ok =>
                        \A i \in DOMAIN news.all_articles :
                            news.all_articles[i].query # queries[k]
                  /\ web[queries[k]].ok =>
                        \A t \in Readable(queries[k]) :
                            \E i \in DOMAIN news.all_articles :
                                news.all_articles[i] = [title |-> t, query |-> queries[k]]
            /\ Cardinality(TitlesOf(news.all_articles)) <= UniqueLimit
                  => \A k \in DOMAIN queries :
                        web[queries[k]].ok
                            => Readable(queries[k]) \subseteq TitlesOf(news.articles)

\* The first search failed and a later one found articles: they are
\* returned.
C22_Witness ==
    /\ news.called
    /\ news.company_name # ""
    /\ ~web[news.symbol].ok
    /\ web[news.company_name].ok
    /\ Len(news.articles) > 0
    /\ \A i \in DOMAIN news.articles : news.articles[i].query # news.symbol

\* The articles of all_articles that a query produced, in order.
ArticlesOf(query) ==
    SelectSeq(news.all_articles, LAMBDA a : a.query = query)

\* C23: search_news returns at most SearchLimit (10) articles per query, made
\* from the first 10 article elements of the page in page order; an element
\* whose parsing raises is skipped and the elements before and after it are
\* kept; every article records its query.
C23_FirstTenElements ==
    news.called =>
        LET queries == stock_queries(news.symbol, news.company_name)
        IN  /\ \A i \in DOMAIN news.all_articles :
                  \E k \in DOMAIN queries : news.all_articles[i].query = queries[k]
            /\ \A k \in DOMAIN queries :
                  web[queries[k]].ok =>
                      LET found == ArticlesOf(queries[k])
                          elements == web[queries[k]].elements
                          read == {j \in 1 .. Min(Len(elements), 10) :
                                      Parses(elements[j])}
                      IN  /\ Len(found) <= 10
                          /\ Len(found) = Cardinality(read)
                          /\ \A n \in DOMAIN found :
                                found[n].title = elements[Kth(read, n)]

\* A page of 11 elements with one that raises among the first 10: 9 articles,
\* from before and after the element that raises.
C23_Witness ==
    /\ news.called
    /\ web[news.symbol].elements = BrokenPage
    /\ Len(ArticlesOf(news.symbol)) = SearchLimit - 1
    /\ ArticlesOf(news.symbol)[1].title = BrokenPage[1]
    /\ ArticlesOf(news.symbol)[2].title = BrokenPage[3]

\* C24: get_market_news searches only for "stock market", "Wall Street" and
\* "S&P 500", in that order, each search followed by a sleep of 1 second, and
\* returns the first 10 of the results put end to end, repeated titles
\* included.
C24_MarketNews ==
    last.op = "get_market_news" =>
        LET searched == <<"stock market", "Wall Street", "S&P 500">>
            all == last.all_market_news
        IN  /\ Len(last.events) = 3 * Len(searched)
            /\ \A k \in DOMAIN searched :
                  /\ last.events[3 * k - 2] = [ev |-> "GET", query |-> searched[k], seconds |-> 0]
                  /\ last.events[3 * k - 1] = [ev |-> "return", query |-> searched[k], seconds |-> 0]
                  /\ last.events[3 * k] = [ev |-> "sleep", query |-> searched[k], seconds |-> 1]
            /\ \A i \in DOMAIN all :
                  \E k \in DOMAIN searched : all[i].query = searched[k]
            /\ \A i, j \in DOMAIN all :
                  i < j => \E k, l \in DOMAIN searched :
                              /\ k <= l
                              /\ all[i].query = searched[k]
                              /\ all[j].query = searched[l]
            /\ Len(last.ret) = Min(Len(all), 10)
            /\ \A n \in DOMAIN last.ret : last.ret[n] = all[n]

\* More than 10 articles were found and the 10 returned hold one title twice,
\* found by two different queries.
C24_Witness ==
    /\ last.op = "get_market_news"
    /\ Len(last.all_market_news) > MarketLimit
    /\ Len(last.ret) = MarketLimit
    /\ \E i, j \in DOMAIN last.ret :
          /\ i # j
          /\ last.ret[i].title = last.ret[j].title
          /\ last.ret[i].query # last.ret[j].query

\* C25: create_news_summary returns a dictionary with an "error" entry only
\* when get_stock_news found no article, and otherwise a summary without an
\* "error" entry whose overall_sentiment is a label no other label of
\* sentiment_distribution has more articles than; compare_stock_news returns
\* one row for each summary that is not an error, in order, and none for one
\* that is.
C25_ErrorOrSummary ==
    /\ (news.called /\ news.articles = << >>) => DOMAIN summary = {"error"}
    /\ (news.called /\ news.articles # << >>) =>
          /\ "error" \notin DOMAIN summary
          /\ summary.overall_sentiment \in DOMAIN summary.sentiment_distribution
          /\ \A label \in DOMAIN summary.sentiment_distribution :
                summary.sentiment_distribution[label]
                    <= summary.sentiment_distribution[summary.overall_sentiment]
    /\ last.op = "compare_stock_news" =>
          LET served == {i \in DOMAIN last.summaries :
                            "error" \notin DOMAIN last.summaries[i]}
          IN  /\ Len(last.summaries) = Min(Len(last.symbols), Len(last.company_names))
              /\ \A i \in DOMAIN last.summaries :
                    i \in served <=> Readable(last.symbols[i]) # {}
              /\ Len(last.ret) = Cardinality(served)
              /\ \A k \in DOMAIN last.ret :
                    /\ last.ret[k].Symbol = last.symbols[Kth(served, k)]
                    /\ last.ret[k].Total_Articles
                           = last.summaries[Kth(served, k)].total_articles
                    /\ last.ret[k].Overall_Sentiment
                           = last.summaries[Kth(served, k)].overall_sentiment

\* Two symbols compared: no news for the first, three articles with two
\* labels for the second; the one row is the second symbol's.
C25_Witness ==
    /\ last.op = "compare_stock_news"
    /\ Len(last.summaries) = 2
    /\ DOMAIN last.summaries[1] = {"error"}
    /\ Len(last.ret) = 1
    /\ last.ret[1].Symbol = last.symbols[2]
    /\ last.ret[1].Symbol # last.symbols[1]
    /\ last.ret[1].Total_Articles = 3
    /\ last.ret[1].Overall_Sentiment = "neutral"
    /\ last.ret[1].Positive_Articles = 1
    /\ summary = last.summaries[2]

\* C26: each keyword adds at most 1 to its count however often it occurs:
\* both counts lie in 0 .. 15 and are the number of list words the text
\* contains, and the text written twice with a space between has the same
\* counts as the text.
C26_CountsOncePerKeyword ==
    /\ \A r \in Results :
          /\ r.positive_words \in 0 .. 15
          /\ r.negative_words \in 0 .. 15
    /\ \A i \in DOMAIN log :
          /\ log[i].result.positive_words <= Len(positive_words)
          /\ log[i].result.negative_words <= Len(negative_words)
    /\ \A i, j \in DOMAIN log :
          log[j].text = log[i].text \o <<" ">> \o log[i].text =>
              /\ log[j].result.positive_words = log[i].result.positive_words
              /\ log[j].result.negative_words = log[i].result.negative_words

\* "UP loss" and "UP loss UP loss" were analysed: one positive and one
\* negative hit each.
C26_Witness ==
    \E i, j \in DOMAIN log :
        /\ log[i].text = Fragments[2] \o <<" ">> \o Fragments[5]
        /\ log[j].text = log[i].text \o <<" ">> \o log[i].text
        /\ log[i].result.positive_words = 1
        /\ log[j].result.positive_words = 1
        /\ log[j].result.negative_words = 1

\* C27: the score before rounding is at least 1/2 and at most 15/16; for a
\* positive or negative result the winning count is at least the losing
\* count plus 1 and the score is 1/2 exactly when the counts differ by 1; it
\* is never 1. The reported score is that quotient rounded.
C27_ScoreRange ==
    \A r \in Results :
        LET score == score_fraction(r.positive_words, r.negative_words)
            winning == IF r.positive_words > r.negative_words
                       THEN r.positive_words ELSE r.negative_words
            losing == IF r.positive_words > r.negative_words
                      THEN r.negative_words ELSE r.positive_words
        IN  /\ score.den > 0
            /\ 2 * score.num >= score.den
            /\ 16 * score.num <= 15 * score.den
            /\ score.num < score.den
            /\ r.score = round3(score.num, score.den)
            /\ r.sentiment # "neutral" =>
                  /\ winning >= losing + 1
                  /\ score.num * (winning + losing + 1) = winning * score.den
                  /\ (2 * score.num = score.den) <=> (winning = losing + 1)

\* A positive result with counts 1 and 0: its score is 0.5, the score of a
\* neutral result.
C27_Witness ==
    \E r \in Results :
        /\ r.sentiment = "positive"
        /\ r.positive_words = 1
        /\ r.negative_words = 0
        /\ r.score = 500

\* C28: get_news constructs its NewsAPIClient before it looks at the endpoint.
\* With no key in the environment the call raises the constructor's ValueError
\* (missing key) for every endpoint, an invalid one included, and no client is
\* constructed; the ValueError 'endpoint must be either ...' is raised only
\* after a client was constructed, and only for an endpoint that is neither
\* 'top_headlines' nor 'everything'. Every call that gets past construction
\* builds a client of its own, the newest one, shared with no earlier call.
KeyMissing == environ.API_NEWS_KEY \in {PyNone, ""}

C28_OwnClient ==
    (last'.op = "get_news" /\ last' # last) =>
        /\ last'.out.constructed => (clients' = clients + 1 /\ last'.client = clients')
        /\ ~last'.out.constructed => (clients' = clients /\ last'.client = 0)

C28_State ==
    last.op = "get_news" =>
        /\ KeyMissing =>
              /\ ~last.out.constructed
              /\ last.out.raised = "ValueError"
              /\ last.out.message = MissingKey
              /\ last.out.called = "none"
        /\ ~KeyMissing => last.out.constructed
        /\ last.out.message = BadEndpoint <=>
              /\ last.out.constructed
              /\ last.endpoint \notin {"top_headlines", "everything"}
        /\ last.out.message = BadEndpoint => last.out.raised = "ValueError"

C28_ClientBeforeEndpoint == [](C28_State) /\ [][C28_OwnClient]_vars

\* With no key in the environment and two clients already constructed from a
\* key passed by hand, a call with an invalid endpoint raises the
\* constructor's error: it reuses neither of them.
C28_Witness ==
    /\ last.op = "get_news"
    /\ last.endpoint \notin {"top_headlines", "everything"}
    /\ KeyMissing
    /\ clients = 2
    /\ last.out.message = MissingKey

\* C29: insert_sample_data is not idempotent on a database file that is kept.
\* After k >= 1 completed calls, each on a file whose tables create_tables has
\* made, the stocks table holds exactly the 5 sample symbols, each once (a
\* duplicate symbol is rejected and skipped), and the portfolio table and the
\* prices table hold 5 * k rows each; create_tables on a file that has the
\* tables changes nothing in it.
SampleSymbols == << "AAPL", "GOOGL", "MSFT", "TSLA", "AMZN" >>

C29_Rows ==
    \A db_path \in DbPaths :
        LET sandbox == sql[db_path]
            k == sandbox.inserts
        IN  k >= 1 =>
                /\ sandbox.db.tables
                /\ [i \in DOMAIN sandbox.db.stocks |-> sandbox.db.stocks[i].symbol]
                       = SampleSymbols
                /\ Len(sandbox.db.portfolio) = 5 * k
                /\ Len(sandbox.db.prices) = 5 * k

C29_CreateTablesIdempotent ==
    \A db_path \in DbPaths :
        (sql'[db_path].out.op = "create_tables" /\ sql[db_path].db.tables) =>
            sql'[db_path].db = sql[db_path].db

C29_InsertNotIdempotent == [](C29_Rows) /\ [][C29_CreateTablesIdempotent]_vars

\* The second insert_sample_data on a file has just completed: all five
\* symbols were skipped and the other two tables have doubled.
C29_Witness ==
    \E db_path \in DbPaths :
        /\ sql[db_path].out.op = "insert_sample_data"
        /\ sql[db_path].out.raised = "none"
        /\ sql[db_path].out.printed = SampleSymbols
        /\ sql[db_path].inserts = 2
        /\ Len(sql[db_path].db.stocks) = 5
        /\ Len(sql[db_path].db.portfolio) = 10

\* C30: the valuation of test_queries counts every portfolio row exactly
\* once: after any number of insert_sample_data runs on the same file, the
\* Total Invested that is reported is the sum of shares * purchase_price over
\* the rows of the portfolio table, Total Current Value is the sum of shares *
\* latest price over those rows, and Total Gain/Loss is their difference.
latest_price(db, stock_id) ==
    LET latest == CHOOSE i \in DOMAIN db.prices :
                      /\ db.prices[i].stock_id = stock_id
                      /\ db.prices[i].date = max_date(db.prices, stock_id)
    IN  db.prices[latest].price

RECURSIVE SumRows(_, _, _)
SumRows(db, n, current) ==
    IF n = 0 THEN 0
    ELSE LET p == db.portfolio[n]
         IN  SumRows(db, n - 1, current)
             + p.shares * (IF current THEN latest_price(db, p.stock_id)
                           ELSE p.purchase_price)

C30_ValuationCountsOnce ==
    \A db_path \in DbPaths :
        LET sandbox == sql[db_path]
            out == sandbox.out
            n == Len(sandbox.db.portfolio)
        IN  (out.op = "test_queries" /\ out.raised = "none") =>
                /\ out.total_invested = SumRows(sandbox.db, n, FALSE)
                /\ out.total_current = SumRows(sandbox.db, n, TRUE)
                /\ out.gain_loss = out.total_current - out.total_invested
====
